---- MODULE Spec2Model ----
(***************************************************************************)
(* CV-Manaiger: the deterministic reconciliation and fallback layer.       *)
(*                                                                         *)
(* Encoding of Python values                                               *)
(*   str            a sequence of one-character strings                    *)
(*   None (str)     PyNone, a one-element sequence no text can equal       *)
(*   datetime.date  <<year, month, day>>                                   *)
(*   None (date)    NoDate, the empty tuple                                *)
(*   exception      ValueError, a one-element tuple returned in place of   *)
(*                  the value the call would have produced                 *)
(*   Optional[bool] <<>> for None, <<TRUE>> or <<FALSE>> otherwise         *)
(*   float years    an integer number of tenths (round(x, 1) * 10)         *)
(***************************************************************************)
EXTENDS Integers, Sequences, FiniteSets, TLC

VARIABLES
    pc,              \* position of the run
    today,           \* date.today(), read wherever an end date is resolved
    raw_text,        \* the text handed to process_cv
    date_hints,      \* the dict returned by extract_all_dates
    tagged,          \* what tag_cv did: raised, returned None, or a CVData
    full_name,       \* cv_data_obj.full_name
    summary,         \* cv_data_obj.summary
    experience,      \* cv_data_obj.experience
    sort_input,      \* the list TimelineSorter.sort was called on
    final_json,      \* format_to_dict(cv_data_obj), returned as "source_cv"
    analyzer_input,  \* the list enrich_cv handed to the analyzer
    timeline,        \* the TimelineAnalysis returned (or the exception raised)
    enrichment,      \* what process_cv returns as "enrichment"
    trace,           \* the steps of process_cv taken so far, in order
    date_segment,    \* the string handed to DateNormalizer.normalize
    normalized_date, \* what normalize returned for it
    date_range,      \* what extract_range returned for raw_text
    chunk_state,     \* the chunks and lead-in lines extract held when it returned
    sorter_dates,    \* the dates get_sort_key resolved, record by record
    analyzer_dates   \* the dates the analyzer's walk resolved, record by record

\* the variables only process_cv touches
pipeline == <<raw_text, date_hints, tagged, full_name, summary, sort_input,
              final_json, analyzer_input, enrichment, trace>>

vars == <<pc, today, experience, timeline, pipeline, date_segment, normalized_date,
         date_range, chunk_state, sorter_dates, analyzer_dates>>

----------------------------------------------------------------------------
(* Characters and strings                                                  *)

PyNone == <<"None">>
NoDate == <<>>
ValueError == <<"ValueError">>

Digits == {"0", "1", "2", "3", "4", "5", "6", "7", "8", "9"}

\* Characters outside ASCII are written as named atoms: "aacute" is the
\* letter a with an acute accent, "ntilde" the letter n with a tilde,
\* "endash" and "emdash" the dashes U+2013 and U+2014, "bullet", "arrow" and
\* "check" the glyphs U+2022, U+27A2 and U+2713.
UpperCase == <<"A","B","C","D","E","F","G","H","I","J","K","L","M",
               "N","O","P","Q","R","S","T","U","V","W","X","Y","Z",
               "Aacute","Eacute","Iacute","Oacute","Uacute","Ntilde">>
LowerCase == <<"a","b","c","d","e","f","g","h","i","j","k","l","m",
               "n","o","p","q","r","s","t","u","v","w","x","y","z",
               "aacute","eacute","iacute","oacute","uacute","ntilde">>

IsDigit(c) == c \in Digits

DigitVal(c) ==
    CASE c = "0" -> 0 [] c = "1" -> 1 [] c = "2" -> 2 [] c = "3" -> 3
      [] c = "4" -> 4 [] c = "5" -> 5 [] c = "6" -> 6 [] c = "7" -> 7
      [] c = "8" -> 8 [] c = "9" -> 9

RECURSIVE ToInt(_)
ToInt(s) ==
    IF s = <<>> THEN 0
    ELSE 10 * ToInt(SubSeq(s, 1, Len(s) - 1)) + DigitVal(s[Len(s)])

LowerChar(c) ==
    IF \E i \in 1..Len(UpperCase) : UpperCase[i] = c
    THEN LowerCase[CHOOSE i \in 1..Len(UpperCase) : UpperCase[i] = c]
    ELSE c

UpperChar(c) ==
    IF \E i \in 1..Len(LowerCase) : LowerCase[i] = c
    THEN UpperCase[CHOOSE i \in 1..Len(LowerCase) : LowerCase[i] = c]
    ELSE c

\* str.upper()
str_upper(s) == [i \in 1..Len(s) |-> UpperChar(s[i])]

\* str.lower()
str_lower(s) == [i \in 1..Len(s) |-> LowerChar(s[i])]

\* str.replace(c, '')
str_remove(s, c) == SelectSeq(s, LAMBDA x : x # c)

IsSpace(c) == c \in {" ", "\t", "\n", "\r"}

\* str.strip()
str_strip(s) ==
    LET keep == {i \in 1..Len(s) : ~IsSpace(s[i])}
    IN  IF keep = {} THEN <<>>
        ELSE SubSeq(s, CHOOSE i \in keep : \A j \in keep : i <= j,
                       CHOOSE i \in keep : \A j \in keep : j <= i)

\* s[:n]
str_prefix(s, n) == SubSeq(s, 1, IF Len(s) < n THEN Len(s) ELSE n)

\* sub in s
Contains(s, sub) ==
    \E i \in 0..(Len(s) - Len(sub)) : SubSeq(s, i + 1, i + Len(sub)) = sub

\* truthiness of an Optional[str]
Truthy(s) == s # PyNone /\ s # <<>>

----------------------------------------------------------------------------
(* datetime                                                                *)

\* datetime.date(year, month, day): years outside 1..9999 and months outside
\* 1..12 raise ValueError; the day is always 1 in this code
make_date(year, month, day) ==
    IF year < 1 \/ year > 9999 \/ month < 1 \/ month > 12
    THEN ValueError
    ELSE <<year, month, day>>

\* date.min
date_min == <<1, 1, 1>>

\* a < b on dates
DateLT(a, b) ==
    \/ a[1] < b[1]
    \/ a[1] = b[1] /\ a[2] < b[2]
    \/ a[1] = b[1] /\ a[2] = b[2] /\ a[3] < b[3]

\* (b.year - a.year) * 12 + (b.month - a.month)
MonthsBetween(a, b) == (b[1] - a[1]) * 12 + (b[2] - a[2])

\* The month field of "%Y-%m": the regex 1[0-2]|0[1-9]|[1-9] tried in that
\* order at the start of s; the number of characters it consumes (0: none).
strptime_m_len(s) ==
    IF Len(s) >= 2 /\ s[1] = "1" /\ s[2] \in {"0", "1", "2"} THEN 2
    ELSE IF Len(s) >= 2 /\ s[1] = "0" /\ IsDigit(s[2]) /\ s[2] # "0" THEN 2
    ELSE IF Len(s) >= 1 /\ IsDigit(s[1]) /\ s[1] # "0" THEN 1
    ELSE 0

\* datetime.strptime(s, "%Y-%m").date(): ValueError when the text does not
\* match, when text remains after the match, or when the year is 0.
strptime_Ym(s) ==
    IF /\ Len(s) >= 5
       /\ \A i \in 1..4 : IsDigit(s[i])
       /\ s[5] = "-"
       /\ strptime_m_len(SubSeq(s, 6, Len(s))) > 0
       /\ 5 + strptime_m_len(SubSeq(s, 6, Len(s))) = Len(s)
    THEN make_date(ToInt(SubSeq(s, 1, 4)), ToInt(SubSeq(s, 6, Len(s))), 1)
    ELSE ValueError

----------------------------------------------------------------------------
(* Date strings fed to the analyzer                                        *)

s_Unknown == <<"U","n","k","n","o","w","n">>
s_Present == <<"P","r","e","s","e","n","t">>
s_0000    == <<"0","0","0","0">>
s_Job     == <<"J","o","b">>

\* the start dates of the records: absent, "Unknown", "0000", "2018-01",
\* "2019-07", "2019-08"
StartStrings ==
    {PyNone, s_Unknown, s_0000, <<"2","0","1","8","-","0","1">>,
     <<"2","0","1","9","-","0","7">>, <<"2","0","1","9","-","0","8">>}

\* their end dates: absent, "2019-01", "2019-10"
EndStrings ==
    {PyNone, <<"2","0","1","9","-","0","1">>, <<"2","0","1","9","-","1","0">>}

\* "201<k>-<mm>" for k in 0..9
career_month(k, mm) ==
    <<"2", "0", "1", <<"0", "1", "2", "3", "4", "5", "6", "7", "8", "9">>[k + 1], "-">>
    \o mm

----------------------------------------------------------------------------
(* TimelineAnalyzer: date resolution                                       *)

\* months_map of _parse_date, in the dict's insertion order
months_map == <<
    <<<<"e","n","e">>, 1>>,
    <<<<"f","e","b">>, 2>>,
    <<<<"m","a","r">>, 3>>,
    <<<<"a","b","r">>, 4>>,
    <<<<"m","a","y">>, 5>>,
    <<<<"j","u","n">>, 6>>,
    <<<<"j","u","l">>, 7>>,
    <<<<"a","g","o">>, 8>>,
    <<<<"s","e","p">>, 9>>,
    <<<<"o","c","t">>, 10>>,
    <<<<"n","o","v">>, 11>>,
    <<<<"d","i","c">>, 12>>,
    <<<<"j","a","n">>, 1>>,
    <<<<"a","p","r">>, 4>>,
    <<<<"a","u","g">>, 8>>,
    <<<<"d","e","c">>, 12>>,
    <<<<"e","n","e","r","o">>, 1>>,
    <<<<"f","e","b","r","e","r","o">>, 2>>,
    <<<<"m","a","r","z","o">>, 3>>,
    <<<<"a","b","r","i","l">>, 4>>,
    <<<<"m","a","y","o">>, 5>>,
    <<<<"j","u","n","i","o">>, 6>>,
    <<<<"j","u","l","i","o">>, 7>>,
    <<<<"a","g","o","s","t","o">>, 8>>,
    <<<<"s","e","p","t","i","e","m","b","r","e">>, 9>>,
    <<<<"o","c","t","u","b","r","e">>, 10>>,
    <<<<"n","o","v","i","e","m","b","r","e">>, 11>>,
    <<<<"d","i","c","i","e","m","b","r","e">>, 12>>,
    <<<<"j","a","n","u","a","r","y">>, 1>>,
    <<<<"f","e","b","r","u","a","r","y">>, 2>>,
    <<<<"m","a","r","c","h">>, 3>>,
    <<<<"a","p","r","i","l">>, 4>>,
    <<<<"j","u","n","e">>, 6>>,
    <<<<"j","u","l","y">>, 7>>,
    <<<<"a","u","g","u","s","t">>, 8>>,
    <<<<"s","e","p","t","e","m","b","e","r">>, 9>>,
    <<<<"o","c","t","o","b","e","r">>, 10>>,
    <<<<"n","o","v","e","m","b","e","r">>, 11>>,
    <<<<"d","e","c","e","m","b","e","r">>, 12>>
>>

\* re.search(r'(\d{4})', s): the 1-based index of the first run of four
\* digits, 0 when there is none
search_year(s) ==
    LET hits == {i \in 1..(Len(s) - 3) : \A j \in i..(i + 3) : IsDigit(s[j])}
    IN  IF hits = {} THEN 0 ELSE CHOOSE i \in hits : \A j \in hits : i <= j

\* re.search(r'(\d{1,2})[/\- ]', s): the integer captured by the leftmost
\* match (two digits preferred over one at the same position), -1 when there
\* is no match
search_numeric_month(s) ==
    LET two(i) == /\ i + 2 <= Len(s)
                  /\ IsDigit(s[i]) /\ IsDigit(s[i + 1]) /\ s[i + 2] \in {"/", "-", " "}
        one(i) == /\ i + 1 <= Len(s)
                  /\ IsDigit(s[i]) /\ s[i + 1] \in {"/", "-", " "}
        hits == {i \in 1..Len(s) : two(i) \/ one(i)}
    IN  IF hits = {} THEN -1
        ELSE LET i == CHOOSE k \in hits : \A j \in hits : k <= j
             IN  IF two(i) THEN ToInt(SubSeq(s, i, i + 1)) ELSE ToInt(<<s[i]>>)

\* the for/else over months_map: the value of the first name (in dict order)
\* that occurs in s, 0 when the loop ends without a break
first_month_name(s) ==
    LET hits == {k \in 1..Len(months_map) : Contains(s, months_map[k][1])}
    IN  IF hits = {} THEN 0
        ELSE months_map[CHOOSE k \in hits : \A j \in hits : k <= j][2]

\* TimelineAnalyzer._parse_date
_parse_date(date_str) ==
    LET resolve(clean) ==
          LET iso   == strptime_Ym(str_prefix(clean, 7))
              yi    == search_year(clean)
              named == first_month_name(clean)
              m     == search_numeric_month(clean)
              month == IF named # 0 THEN named
                       ELSE IF m >= 1 /\ m <= 12 THEN m
                       ELSE 1
          IN  IF iso # ValueError THEN iso
              ELSE IF yi = 0 THEN NoDate
              ELSE make_date(ToInt(SubSeq(clean, yi, yi + 3)), month, 1)
    IN  IF ~Truthy(date_str) THEN NoDate
        ELSE resolve(str_strip(str_remove(str_remove(str_lower(date_str), "."),
                                          ",")))

\* the ongoing words _get_end_date looks for
end_ongoing_words == <<
    <<"p","r","e","s","e","n","t">>,
    <<"a","c","t","u","a","l","i","d","a","d">>,
    <<"p","r","e","s","e","n","t","e">>,
    <<"c","u","r","r","e","n","t">>,
    <<"a","h","o","r","a">>
>>

\* TimelineAnalyzer._get_end_date
_get_end_date(date_str, now) ==
    IF ~Truthy(date_str) THEN now
    ELSE IF \E k \in 1..Len(end_ongoing_words) :
                Contains(str_lower(date_str), end_ongoing_words[k])
    THEN now
    ELSE LET or_now(parsed) == IF parsed = NoDate THEN now ELSE parsed
         IN  or_now(_parse_date(date_str))

----------------------------------------------------------------------------
(* TimelineAnalyzer.analyze                                                *)

\* round(months / 12, 1) in tenths of a year: months * 10 / 12 rounded to
\* the nearest integer, ties to the even one (every tie is a multiple of
\* 0.25 years, which a float holds exactly)
round_years(months) ==
    LET n == 5 * months
        q == n \div 6
        r == n % 6
    IN  IF r < 3 THEN q
        ELSE IF r > 3 THEN q + 1
        ELSE IF q % 2 = 0 THEN q ELSE q + 1

\* the key of the ascending sort: _parse_date(x.start_date) or date.min
start_key(e) ==
    LET or_min(d) == IF d = NoDate THEN date_min ELSE d
    IN  or_min(_parse_date(e.start_date))

\* e, of key key, placed after the records of the sorted list init whose keys
\* are not above key
insert_by_start(init, e, key) ==
    LET place(k) == SubSeq(init, 1, k) \o <<e>> \o SubSeq(init, k + 1, Len(init))
    IN  place(Cardinality({i \in 1..Len(init) :
                              ~DateLT(key, start_key(init[i]))}))

\* sorted(valid_exps, key=...): ascending and stable
RECURSIVE sorted_by_start(_)
sorted_by_start(s) ==
    IF s = <<>> THEN <<>>
    ELSE insert_by_start(sorted_by_start(SubSeq(s, 1, Len(s) - 1)), s[Len(s)],
                         start_key(s[Len(s)]))

\* the entry appended to gaps; strftime('%b %Y') is kept as <<year, month>>
gap_entry(last_role_end, start, gap_months) ==
    [from   |-> <<last_role_end[1], last_role_end[2]>>,
     to     |-> <<start[1], start[2]>>,
     months |-> gap_months]

\* the gap threshold of the walk, in months
GAP_THRESHOLD_MONTHS == 6

\* walk_step with the gap test made inclusive (gap_months >= 6)
walk_step_inclusive(acc, exp, now) ==
    LET step(start, end) ==
          LET gap_months == MonthsBetween(acc.last_role_end, start)
              role_months == MonthsBetween(start, end)
          IN  IF start = NoDate THEN acc
              ELSE [last_role_end |->
                       IF acc.last_role_end = NoDate \/ DateLT(acc.last_role_end, end)
                       THEN end ELSE acc.last_role_end,
                    gaps |->
                       IF /\ acc.last_role_end # NoDate
                          /\ DateLT(acc.last_role_end, start)
                          /\ gap_months >= GAP_THRESHOLD_MONTHS
                       THEN Append(acc.gaps,
                                   gap_entry(acc.last_role_end, start, gap_months))
                       ELSE acc.gaps,
                    total_role_months |->
                       acc.total_role_months
                       + (IF role_months < 1 THEN 1 ELSE role_months),
                    role_count |-> acc.role_count + 1]
    IN  step(_parse_date(exp.start_date), _get_end_date(exp.end_date, now))

\* one iteration with last_role_end set to the end of the record just walked
walk_step_previous_end(acc, exp, now) ==
    LET step(start, end) ==
          LET gap_months == MonthsBetween(acc.last_role_end, start)
              role_months == MonthsBetween(start, end)
          IN  IF start = NoDate THEN acc
              ELSE [last_role_end |-> end,
                    gaps |->
                       IF /\ acc.last_role_end # NoDate
                          /\ DateLT(acc.last_role_end, start)
                          /\ gap_months > GAP_THRESHOLD_MONTHS
                       THEN Append(acc.gaps,
                                   gap_entry(acc.last_role_end, start, gap_months))
                       ELSE acc.gaps,
                    total_role_months |->
                       acc.total_role_months
                       + (IF role_months < 1 THEN 1 ELSE role_months),
                    role_count |-> acc.role_count + 1]
    IN  step(_parse_date(exp.start_date), _get_end_date(exp.end_date, now))

\* one iteration with the months of the role taken as they are
walk_step_unfloored(acc, exp, now) ==
    LET step(start, end) ==
          LET gap_months == MonthsBetween(acc.last_role_end, start)
              role_months == MonthsBetween(start, end)
          IN  IF start = NoDate THEN acc
              ELSE [last_role_end |->
                       IF acc.last_role_end = NoDate \/ DateLT(acc.last_role_end, end)
                       THEN end ELSE acc.last_role_end,
                    gaps |->
                       IF /\ acc.last_role_end # NoDate
                          /\ DateLT(acc.last_role_end, start)
                          /\ gap_months > GAP_THRESHOLD_MONTHS
                       THEN Append(acc.gaps,
                                   gap_entry(acc.last_role_end, start, gap_months))
                       ELSE acc.gaps,
                    total_role_months |-> acc.total_role_months + role_months,
                    role_count |-> acc.role_count + 1]
    IN  step(_parse_date(exp.start_date), _get_end_date(exp.end_date, now))

\* one iteration of the loop "for exp in sorted_exp"
walk_step(acc, exp, now) ==
    LET step(start, end) ==
          LET gap_months == MonthsBetween(acc.last_role_end, start)
              role_months == MonthsBetween(start, end)
          IN  IF start = NoDate THEN acc
              ELSE [last_role_end |->
                       IF acc.last_role_end = NoDate \/ DateLT(acc.last_role_end, end)
                       THEN end ELSE acc.last_role_end,
                    gaps |->
                       IF /\ acc.last_role_end # NoDate
                          /\ DateLT(acc.last_role_end, start)
                          /\ gap_months > GAP_THRESHOLD_MONTHS
                       THEN Append(acc.gaps,
                                   gap_entry(acc.last_role_end, start, gap_months))
                       ELSE acc.gaps,
                    total_role_months |->
                       acc.total_role_months
                       + (IF role_months < 1 THEN 1 ELSE role_months),
                    role_count |-> acc.role_count + 1]
    IN  step(_parse_date(exp.start_date), _get_end_date(exp.end_date, now))

\* the loop over the first n records of sorted_exp
RECURSIVE walk(_, _, _)
walk(sorted_exp, n, now) ==
    IF n = 0
    THEN [last_role_end |-> NoDate, gaps |-> <<>>,
          total_role_months |-> 0, role_count |-> 0]
    ELSE walk_step(walk(sorted_exp, n - 1, now), sorted_exp[n], now)

\* TimelineAnalysis(total_years_experience=0, avg_tenure_months=0, stability_score=0)
empty_analysis ==
    [total_years_experience |-> 0, avg_tenure_months |-> 0,
     detected_gaps |-> <<>>, job_hopping_risk |-> <<>>, stability_score |-> 0]

\* avg_tenure = int(total_role_months / role_count) if role_count > 0 else 0
avg_tenure_of(total_role_months, role_count) ==
    IF role_count > 0 THEN total_role_months \div role_count ELSE 0

\* the tenure below which, with more than JOB_HOPPING_MIN_ROLES roles, the
\* job-hopping flag is raised
JOB_HOPPING_TENURE_MONTHS == 12
JOB_HOPPING_MIN_ROLES == 2

\* job_hopping_of with the role count test made inclusive (role_count >= 2)
job_hopping_inclusive(avg_tenure, role_count) ==
    avg_tenure < JOB_HOPPING_TENURE_MONTHS /\ role_count >= JOB_HOPPING_MIN_ROLES

\* job_hopping = avg_tenure < 12 and role_count > 2
job_hopping_of(avg_tenure, role_count) ==
    avg_tenure < JOB_HOPPING_TENURE_MONTHS /\ role_count > JOB_HOPPING_MIN_ROLES

\* the stability score: base, penalties and floor
SCORE_BASE == 10
SCORE_HOPPING_PENALTY == 3
SCORE_GAP_PENALTY == 2
SCORE_FLOOR == 1

\* stability without the floor (the line "if score < 1: score = 1" dropped)
stability_unfloored(job_hopping, gaps) ==
    SCORE_BASE
    - (IF job_hopping THEN SCORE_HOPPING_PENALTY ELSE 0)
    - Len(gaps) * SCORE_GAP_PENALTY

\* score = 10; if job_hopping: score -= 3; score -= len(gaps) * 2; floor 1
stability(job_hopping, gaps) ==
    LET score == SCORE_BASE
                 - (IF job_hopping THEN SCORE_HOPPING_PENALTY ELSE 0)
                 - Len(gaps) * SCORE_GAP_PENALTY
    IN  IF score < SCORE_FLOOR THEN SCORE_FLOOR ELSE score

\* the records analyze keeps: [e for e in experiences if e.start_date]
dated(experiences) == SelectSeq(experiences, LAMBDA e : Truthy(e.start_date))

\* what analyze leaves when a date resolution raises ValueError
analyze_raised == [exception |-> "ValueError"]

\* the result assembled from the walk, the first start and the last end
analysis_of(w, first_start, last_end) ==
    LET total_months_span ==
            IF first_start # NoDate
            THEN MonthsBetween(first_start, last_end) ELSE 0
        avg_tenure  == avg_tenure_of(w.total_role_months, w.role_count)
        job_hopping == job_hopping_of(avg_tenure, w.role_count)
    IN  [total_years_experience |-> round_years(total_months_span),
         avg_tenure_months      |-> avg_tenure,
         detected_gaps          |-> w.gaps,
         job_hopping_risk       |-> <<job_hopping>>,
         stability_score        |-> stability(job_hopping, w.gaps)]

\* analyze once the records are sorted by start date
analyze_sorted(sorted_exp, now) ==
    IF sorted_exp = <<>> THEN empty_analysis
    ELSE IF \E i \in 1..Len(sorted_exp) :
               _get_end_date(sorted_exp[i].end_date, now) = ValueError
    THEN analyze_raised
    ELSE analysis_of(walk(sorted_exp, Len(sorted_exp), now),
                     _parse_date(sorted_exp[1].start_date),
                     _get_end_date(sorted_exp[Len(sorted_exp)].end_date, now))

\* analyze on the records that have a start date
analyze_dated(with_start, now) ==
    IF \E i \in 1..Len(with_start) :
          _parse_date(with_start[i].start_date) = ValueError
    THEN analyze_raised
    ELSE analyze_sorted(sorted_by_start(with_start), now)

\* TimelineAnalyzer.analyze
analyze(experiences, now) ==
    IF experiences = <<>> THEN empty_analysis
    ELSE analyze_dated(dated(experiences), now)

----------------------------------------------------------------------------
(* DateNormalizer                                                          *)

\* DateNormalizer.MONTHS_MAP as a set of <<key, value>> pairs
MONTHS_MAP == {
    <<<<"e","n","e">>, <<"0","1">>>>,
    <<<<"e","n","e","r","o">>, <<"0","1">>>>,
    <<<<"j","a","n">>, <<"0","1">>>>,
    <<<<"j","a","n","u","a","r","y">>, <<"0","1">>>>,
    <<<<"f","e","b">>, <<"0","2">>>>,
    <<<<"f","e","b","r","e","r","o">>, <<"0","2">>>>,
    <<<<"f","e","b","r","u","a","r","y">>, <<"0","2">>>>,
    <<<<"m","a","r">>, <<"0","3">>>>,
    <<<<"m","a","r","z","o">>, <<"0","3">>>>,
    <<<<"m","a","r","c","h">>, <<"0","3">>>>,
    <<<<"a","b","r">>, <<"0","4">>>>,
    <<<<"a","b","r","i","l">>, <<"0","4">>>>,
    <<<<"a","p","r">>, <<"0","4">>>>,
    <<<<"a","p","r","i","l">>, <<"0","4">>>>,
    <<<<"m","a","y">>, <<"0","5">>>>,
    <<<<"m","a","y","o">>, <<"0","5">>>>,
    <<<<"j","u","n">>, <<"0","6">>>>,
    <<<<"j","u","n","i","o">>, <<"0","6">>>>,
    <<<<"j","u","n","e">>, <<"0","6">>>>,
    <<<<"j","u","l">>, <<"0","7">>>>,
    <<<<"j","u","l","i","o">>, <<"0","7">>>>,
    <<<<"j","u","l","y">>, <<"0","7">>>>,
    <<<<"a","g","o">>, <<"0","8">>>>,
    <<<<"a","g","o","s","t","o">>, <<"0","8">>>>,
    <<<<"a","u","g">>, <<"0","8">>>>,
    <<<<"a","u","g","u","s","t">>, <<"0","8">>>>,
    <<<<"s","e","p">>, <<"0","9">>>>,
    <<<<"s","e","p","t","i","e","m","b","r","e">>, <<"0","9">>>>,
    <<<<"s","e","p","t","e","m","b","e","r">>, <<"0","9">>>>,
    <<<<"o","c","t">>, <<"1","0">>>>,
    <<<<"o","c","t","u","b","r","e">>, <<"1","0">>>>,
    <<<<"o","c","t","o","b","e","r">>, <<"1","0">>>>,
    <<<<"n","o","v">>, <<"1","1">>>>,
    <<<<"n","o","v","i","e","m","b","r","e">>, <<"1","1">>>>,
    <<<<"n","o","v","e","m","b","e","r">>, <<"1","1">>>>,
    <<<<"d","i","c">>, <<"1","2">>>>,
    <<<<"d","i","c","i","e","m","b","r","e">>, <<"1","2">>>>,
    <<<<"d","e","c">>, <<"1","2">>>>,
    <<<<"d","e","c","e","m","b","e","r">>, <<"1","2">>>>
}

\* the letters of the class [a-zA-Z] extended with the accented vowels
PatternLetters ==
    ({UpperCase[i] : i \in 1..Len(UpperCase)} \cup
     {LowerCase[i] : i \in 1..Len(LowerCase)}) \ {"ntilde", "Ntilde"}

\* \w: letters, digits and the underscore
IsWordChar(c) == c \in PatternLetters \cup Digits \cup {"_", "ntilde", "Ntilde"}

\* \b before the 1-based index i of s (i = Len(s) + 1: at the end)
WordBoundary(s, i) ==
    (i > 1 /\ i - 1 <= Len(s) /\ IsWordChar(s[i - 1]))
    # (i >= 1 /\ i <= Len(s) /\ IsWordChar(s[i]))

\* the index after the run [ \-/]* that starts at index i
sep_run_end(s, i) ==
    LET stops == {j \in i..Len(s) : s[j] \notin {" ", "-", "/"}}
    IN  IF stops = {} THEN Len(s) + 1
        ELSE CHOOSE j \in stops : \A k \in stops : j <= k

\* zfill2 without the padding
zfill_none(s) == s

\* str.zfill(2)
zfill2(s) == IF Len(s) < 2 THEN <<"0">> \o s ELSE s

\* the ongoing words normalize looks for
normalize_ongoing_words == <<
    <<"p","r","e","s","e","n","t">>,
    <<"a","c","t","u","a","l","i","d","a","d">>,
    <<"p","r","e","s","e","n","t","e">>,
    <<"a","h","o","r","a">>,
    <<"c","u","r","r","e","n","t">>
>>

\* re.search(r'(\d{1,2})[/\-](\d{4})', s): <<group 1, group 2>> of the
\* leftmost match, <<>> when there is none
search_mm_yyyy(s) ==
    LET two(i) == /\ i + 6 <= Len(s)
                  /\ IsDigit(s[i]) /\ IsDigit(s[i + 1])
                  /\ s[i + 2] \in {"/", "-"}
                  /\ \A j \in (i + 3)..(i + 6) : IsDigit(s[j])
        one(i) == /\ i + 5 <= Len(s)
                  /\ IsDigit(s[i])
                  /\ s[i + 1] \in {"/", "-"}
                  /\ \A j \in (i + 2)..(i + 5) : IsDigit(s[j])
        hits == {i \in 1..Len(s) : two(i) \/ one(i)}
    IN  IF hits = {} THEN <<>>
        ELSE LET i == CHOOSE k \in hits : \A j \in hits : k <= j
             IN  IF two(i) THEN <<SubSeq(s, i, i + 1), SubSeq(s, i + 3, i + 6)>>
                 ELSE <<SubSeq(s, i, i), SubSeq(s, i + 2, i + 5)>>

\* re.search(r'(\d{4})[/\-](\d{1,2})', s): <<group 1, group 2>> of the
\* leftmost match, <<>> when there is none
search_yyyy_mm(s) ==
    LET hit(i) == /\ i + 5 <= Len(s)
                  /\ \A j \in i..(i + 3) : IsDigit(s[j])
                  /\ s[i + 4] \in {"/", "-"}
                  /\ IsDigit(s[i + 5])
        hits == {i \in 1..Len(s) : hit(i)}
    IN  IF hits = {} THEN <<>>
        ELSE LET i == CHOOSE k \in hits : \A j \in hits : k <= j
             IN  IF i + 6 <= Len(s) /\ IsDigit(s[i + 6])
                 THEN <<SubSeq(s, i, i + 3), SubSeq(s, i + 5, i + 6)>>
                 ELSE <<SubSeq(s, i, i + 3), SubSeq(s, i + 5, i + 5)>>

\* \b\d{4}\b at index q
bounded_year_at(s, q) ==
    /\ q >= 1 /\ q + 3 <= Len(s)
    /\ \A j \in q..(q + 3) : IsDigit(s[j])
    /\ WordBoundary(s, q)
    /\ WordBoundary(s, q + 4)

\* DATE_PATTERN tried at index p with group 1 taking n characters (n = 0: the
\* optional group is skipped): <<group 1, group 2>>, or <<>> when it fails.
\* Group 1 is \b[letters]{3,10}\b or \b\d{1,2}\b; [ \-/]* then runs up to
\* the year, which must start where the run ends.
date_pattern_try(s, p, n) ==
    LET q == sep_run_end(s, p + n)
        group1 == SubSeq(s, p, p + n - 1)
        letters == n >= 3 /\ n <= 10 /\ \A j \in p..(p + n - 1) : s[j] \in PatternLetters
        digits  == n >= 1 /\ n <= 2 /\ \A j \in p..(p + n - 1) : IsDigit(s[j])
    IN  IF /\ p + n - 1 <= Len(s)
           /\ n = 0 \/ ( /\ letters \/ digits
                         /\ WordBoundary(s, p)
                         /\ WordBoundary(s, p + n) )
           /\ bounded_year_at(s, q)
        THEN <<(IF n = 0 THEN PyNone ELSE group1), SubSeq(s, q, q + 3)>>
        ELSE <<>>

\* the first element of results that differs from none, none when there is
\* no such element: the regex engine keeps the first alternative, and the
\* leftmost position, that matches
first_match(results, none) ==
    LET ok == {k \in DOMAIN results : results[k] # none}
    IN  IF ok = {} THEN none
        ELSE results[CHOOSE k \in ok : \A j \in ok : k <= j]

\* the lengths group 1 of the date patterns tries, in the engine's order:
\* letters 10..3, digits 2..1, no group
group1_lengths == <<10, 9, 8, 7, 6, 5, 4, 3, 2, 1, 0>>

\* DATE_PATTERN matched at index p
date_pattern_at(s, p) ==
    first_match([k \in 1..Len(group1_lengths) |->
                    date_pattern_try(s, p, group1_lengths[k])], <<>>)

\* DATE_PATTERN.search(s): the match at the leftmost index that matches
date_pattern_search(s) ==
    first_match([p \in 1..(Len(s) + 1) |-> date_pattern_at(s, p)], <<>>)

\* DateNormalizer.normalize
normalize(raw_date) ==
    LET formatted(month_part, year) ==
          LET in_map == {kv \in MONTHS_MAP : kv[1] = month_part}
          IN  IF month_part # PyNone /\ in_map # {}
              THEN year \o <<"-">> \o (CHOOSE kv \in in_map : TRUE)[2]
              ELSE IF /\ month_part # PyNone
                      /\ \A j \in 1..Len(month_part) : IsDigit(month_part[j])
                      /\ ToInt(month_part) >= 1 /\ ToInt(month_part) <= 12
                   THEN year \o <<"-">> \o zfill2(month_part)
              ELSE year
        steps(clean, mm_yyyy, yyyy_mm, match) ==
          IF \E k \in 1..Len(normalize_ongoing_words) :
                 Contains(clean, normalize_ongoing_words[k])
          THEN s_Present
          ELSE IF mm_yyyy # <<>> THEN mm_yyyy[2] \o <<"-">> \o zfill2(mm_yyyy[1])
          ELSE IF yyyy_mm # <<>> THEN yyyy_mm[1] \o <<"-">> \o zfill2(yyyy_mm[2])
          ELSE IF match = <<>> THEN raw_date
          ELSE formatted(match[1], match[2])
    IN  IF ~Truthy(raw_date) THEN <<>>
        ELSE steps(str_strip(str_lower(raw_date)),
                   search_mm_yyyy(str_strip(str_lower(raw_date))),
                   search_yyyy_mm(str_strip(str_lower(raw_date))),
                   date_pattern_search(str_strip(str_lower(raw_date))))

\* DateNormalizer.parse_to_date
parse_to_date(raw_date, is_end_date, now) ==
    LET resolve(normalized) ==
          IF normalized = <<>> \/ normalized = s_Unknown
          THEN IF is_end_date THEN now ELSE NoDate
          ELSE IF normalized = s_Present THEN now
          ELSE IF /\ Len(normalized) = 7 /\ normalized[5] = "-"
                  /\ strptime_Ym(normalized) # ValueError
               THEN strptime_Ym(normalized)
          ELSE IF /\ Len(normalized) = 4
                  /\ \A j \in 1..4 : IsDigit(normalized[j])
                  /\ make_date(ToInt(normalized), 1, 1) # ValueError
               THEN make_date(ToInt(normalized), 1, 1)
          ELSE NoDate
    IN  resolve(normalize(raw_date))

\* the range regex of extract_range tried at index p with group 1 taking n
\* characters: the index after the match, or 0 when it fails. Unlike
\* DATE_PATTERN neither group is anchored on a word boundary.
range_pattern_try(s, p, n) ==
    LET q == sep_run_end(s, p + n)
        letters == n >= 3 /\ n <= 10 /\ \A j \in p..(p + n - 1) : s[j] \in PatternLetters
        digits  == n >= 1 /\ n <= 2 /\ \A j \in p..(p + n - 1) : IsDigit(s[j])
    IN  IF /\ p + n - 1 <= Len(s)
           /\ n = 0 \/ letters \/ digits
           /\ q + 3 <= Len(s)
           /\ \A j \in q..(q + 3) : IsDigit(s[j])
        THEN q + 4
        ELSE 0

\* the range regex matched at index p: <<p, index after the match>>, or <<>>
range_pattern_at(s, p) ==
    LET span(e) == IF e = 0 THEN <<>> ELSE <<p, e>>
    IN  span(first_match([k \in 1..Len(group1_lengths) |->
                             range_pattern_try(s, p, group1_lengths[k])], 0))

\* re.finditer over s from index from: the non-overlapping matches, left to
\* right, each as <<first index, index after the match>>
RECURSIVE range_finditer(_, _)
range_finditer(s, from) ==
    LET and_rest(m) == IF m = <<>> THEN <<>>
                       ELSE <<m>> \o range_finditer(s, m[2])
    IN  and_rest(first_match([p \in from..Len(s) |-> range_pattern_at(s, p)],
                             <<>>))

\* the ongoing words extract_range looks for
range_ongoing_words == <<
    <<"p","r","e","s","e","n","t">>,
    <<"a","c","t","u","a","l","i","d","a","d">>,
    <<"p","r","e","s","e","n","t","e">>,
    <<"a","h","o","r","a">>
>>

\* extract_range once finditer has listed the matches of the range regex
range_of_matches(text, iter_dates) ==
    LET ongoing(seg) == \E k \in 1..Len(range_ongoing_words) :
                            Contains(str_lower(seg), range_ongoing_words[k])
        pick(start, end) ==
          IF Len(iter_dates) >= 2
          THEN IF ongoing(str_strip(SubSeq(text, iter_dates[1][2], Len(text))))
               THEN <<start, s_Present>>
               ELSE <<start, end>>
          ELSE IF Len(iter_dates) = 1
          THEN IF ongoing(text) THEN <<start, s_Present>>
               ELSE <<start, s_Unknown>>
          ELSE <<s_Unknown, s_Unknown>>
    IN  pick(normalize(SubSeq(text, iter_dates[1][1], iter_dates[1][2] - 1)),
             normalize(SubSeq(text, iter_dates[2][1], iter_dates[2][2] - 1)))

\* DateNormalizer.extract_range: <<start, end>>
extract_range(text) == range_of_matches(text, range_finditer(text, 1))

----------------------------------------------------------------------------
(* TimelineSorter                                                          *)

\* get_sort_key: (end, start), an unresolved date replaced by date.min
get_sort_key(entry, now) ==
    LET key(start, end) == <<(IF end = NoDate THEN date_min ELSE end),
                             (IF start = NoDate THEN date_min ELSE start)>>
    IN  key(parse_to_date(entry.start_date, FALSE, now),
            parse_to_date(entry.end_date, TRUE, now))

\* a < b on sort keys (tuples compare left to right)
KeyLT(a, b) == DateLT(a[1], b[1]) \/ (a[1] = b[1] /\ DateLT(a[2], b[2]))

\* insert_descending with x placed before the records of equal key (a sort
\* that is not stable)
insert_before_equal(head, x, k, now) ==
    LET before == {i \in 1..Len(head) : KeyLT(k, get_sort_key(head[i], now))}
        n == IF before = {} THEN 0
             ELSE CHOOSE i \in before : \A j \in before : j <= i
    IN  SubSeq(head, 1, n) \o <<x>> \o SubSeq(head, n + 1, Len(head))

\* x, of key k, placed after the last record of the sorted list head whose
\* key is not below k
insert_descending(head, x, k, now) ==
    LET before == {i \in 1..Len(head) : ~KeyLT(get_sort_key(head[i], now), k)}
        n == IF before = {} THEN 0
             ELSE CHOOSE i \in before : \A j \in before : j <= i
    IN  SubSeq(head, 1, n) \o <<x>> \o SubSeq(head, n + 1, Len(head))

\* list.sort(key=..., reverse=True): descending and stable, records with
\* equal keys keep their relative order
RECURSIVE sort_descending(_, _)
sort_descending(s, now) ==
    IF Len(s) <= 1 THEN s
    ELSE insert_descending(sort_descending(SubSeq(s, 1, Len(s) - 1), now),
                           s[Len(s)], get_sort_key(s[Len(s)], now), now)

\* TimelineSorter.sort on cv_data.experience
sort(experience_list, now) ==
    IF experience_list = <<>> THEN experience_list
    ELSE sort_descending(experience_list, now)

----------------------------------------------------------------------------
(* Experience records                                                      *)

\* s or ''
or_empty(s) == IF Truthy(s) THEN s ELSE <<>>

\* ExperienceEntry.check_dates, the validator run on every construction: a
\* record without a start date that the user has not adjusted takes the
\* range found in "title company description", at confidence "medium"
check_dates(self) ==
    LET dated_from(range) ==
          IF range[1] # s_Unknown
          THEN [self EXCEPT !.start_date = range[1],
                            !.end_date = IF range[2] # s_Unknown
                                         THEN range[2] ELSE PyNone,
                            !.date_confidence = "medium"]
          ELSE self
    IN  IF self.user_adjusted \/ Truthy(self.start_date) THEN self
        ELSE dated_from(extract_range(or_empty(self.title) \o <<" ">>
                                      \o or_empty(self.company) \o <<" ">>
                                      \o or_empty(self.description)))

\* ExperienceEntry(title=..., company=..., start_date=..., end_date=...,
\* description=...): the other fields take the schema's defaults
ExperienceEntry(title, company, start_date, end_date, description) ==
    check_dates([title |-> title, company |-> company,
                 start_date |-> start_date, end_date |-> end_date,
                 description |-> description, date_confidence |-> "high",
                 user_adjusted |-> FALSE, original_date_line |-> PyNone])

----------------------------------------------------------------------------
(* DatePreProcessor                                                        *)

\* text.split('\n')
RECURSIVE split_lines(_)
split_lines(text) ==
    LET breaks == {i \in 1..Len(text) : text[i] = "\n"}
    IN  IF breaks = {} THEN <<text>>
        ELSE LET i == CHOOSE k \in breaks : \A j \in breaks : k <= j
             IN  <<SubSeq(text, 1, i - 1)>> \o split_lines(SubSeq(text, i + 1, Len(text)))

\* the index after the run \s* that starts at index i
space_run_end(s, i) ==
    LET stops == {j \in i..Len(s) : ~IsSpace(s[j])}
    IN  IF stops = {} THEN Len(s) + 1
        ELSE CHOOSE j \in stops : \A k \in stops : j <= k

\* the length of the run of class letters that starts at index i
letter_run(s, i) ==
    LET stops == {j \in i..Len(s) : s[j] \notin PatternLetters}
    IN  IF stops = {} THEN Len(s) + 1 - i
        ELSE (CHOOSE j \in stops : \A k \in stops : j <= k) - i

\* \d{4} at index i
four_digits_at(s, i) ==
    i >= 1 /\ i + 3 <= Len(s) /\ \A j \in i..(i + 3) : IsDigit(s[j])

\* [-, en dash, em dash]
IsDash(c) == c \in {"-", "endash", "emdash"}

\* word matched at index i whatever the case
word_at(s, i, word) ==
    i + Len(word) - 1 <= Len(s) /\ str_lower(SubSeq(s, i, i + Len(word) - 1)) = word

\* the literal alternatives Present|Presente|Actualidad|Current|Now in the
\* order the patterns list them
range_end_words == <<
    <<"p","r","e","s","e","n","t">>,
    <<"p","r","e","s","e","n","t","e">>,
    <<"a","c","t","u","a","l","i","d","a","d">>,
    <<"c","u","r","r","e","n","t">>,
    <<"n","o","w">>
>>

\* the length of the first literal alternative that matches at index i, 0
\* when none does
end_word_len(s, i) ==
    LET ok == {k \in 1..Len(range_end_words) : word_at(s, i, range_end_words[k])}
    IN  IF ok = {} THEN 0
        ELSE Len(range_end_words[CHOOSE k \in ok : \A j \in ok : k <= j])

\* FULL_RANGE_PATTERN matched at index p: <<group 1, group 2, group 3,
\* group 4>>, group 4 PyNone when the end year is missing; <<>> on failure
full_range_at(s, p) ==
    LET n1 == letter_run(s, p)
        b == space_run_end(s, p + n1)
        c == space_run_end(s, b + 4)
        d == space_run_end(s, c + 1)
        w == end_word_len(s, d)
        r == letter_run(s, d)
        n3 == IF w > 0 THEN w ELSE IF r > 10 THEN 10 ELSE r
        f == space_run_end(s, d + n3)
    IN  IF /\ n1 >= 3 /\ n1 <= 10
           /\ four_digits_at(s, b)
           /\ c <= Len(s) /\ IsDash(s[c])
           /\ n3 >= 3
        THEN <<SubSeq(s, p, p + n1 - 1), SubSeq(s, b, b + 3),
               SubSeq(s, d, d + n3 - 1),
               (IF four_digits_at(s, f) THEN SubSeq(s, f, f + 3) ELSE PyNone)>>
        ELSE <<>>

\* YEAR_RANGE_PATTERN matched at index p: <<group 1, group 2>>, or <<>>
year_range_at(s, p) ==
    LET c == space_run_end(s, p + 4)
        d == space_run_end(s, c + 1)
        w == end_word_len(s, d)
    IN  IF /\ four_digits_at(s, p)
           /\ c <= Len(s) /\ IsDash(s[c])
           /\ w > 0 \/ four_digits_at(s, d)
        THEN <<SubSeq(s, p, p + 3),
               (IF w > 0 THEN SubSeq(s, d, d + w - 1) ELSE SubSeq(s, d, d + 3))>>
        ELSE <<>>

\* SINGLE_DATE_PATTERN matched at index p: <<group 1, group 2>>, or <<>>
single_date_at(s, p) ==
    LET n1 == letter_run(s, p)
        b == space_run_end(s, p + n1)
    IN  IF n1 >= 3 /\ n1 <= 10 /\ four_digits_at(s, b)
        THEN <<SubSeq(s, p, p + n1 - 1), SubSeq(s, b, b + 3)>>
        ELSE <<>>

\* DateHint(start_date, end_date, confidence, raw_line)
DateHint(start_date, end_date, confidence, raw_line) ==
    [start_date |-> start_date, end_date |-> end_date,
     confidence |-> confidence, raw_line |-> raw_line]

\* line_hint with the single-date pattern tried first
line_hint_single_first(line, full, year, single, range) ==
    IF single # <<>>
    THEN DateHint(normalize(single[1] \o <<" ">> \o single[2]), PyNone,
                  "medium", line)
    ELSE IF full # <<>>
    THEN DateHint(normalize(full[1] \o <<" ">> \o full[2]),
                  normalize(IF full[4] # PyNone
                            THEN full[3] \o <<" ">> \o full[4]
                            ELSE full[3]),
                  "high", line)
    ELSE IF year # <<>>
    THEN DateHint(year[1], normalize(year[2]), "high", line)
    ELSE IF (\E p \in 1..Len(line) : four_digits_at(line, p))
            /\ range[1] # s_Unknown
    THEN DateHint(range[1],
                  (IF range[2] # s_Unknown THEN range[2] ELSE PyNone),
                  "low", line)
    ELSE DateHint(PyNone, PyNone, "low", line)

\* the hint of a stripped, non-empty line: full, year and single are the
\* matches of the three patterns (<<>>: no match), range is what
\* extract_range finds in the line
line_hint(line, full, year, single, range) ==
    IF full # <<>>
    THEN DateHint(normalize(full[1] \o <<" ">> \o full[2]),
                  normalize(IF full[4] # PyNone
                            THEN full[3] \o <<" ">> \o full[4]
                            ELSE full[3]),
                  "high", line)
    ELSE IF year # <<>>
    THEN DateHint(year[1], normalize(year[2]), "high", line)
    ELSE IF single # <<>>
    THEN DateHint(normalize(single[1] \o <<" ">> \o single[2]), PyNone,
                  "medium", line)
    ELSE IF (\E p \in 1..Len(line) : four_digits_at(line, p))
            /\ range[1] # s_Unknown
    THEN DateHint(range[1],
                  (IF range[2] # s_Unknown THEN range[2] ELSE PyNone),
                  "low", line)
    ELSE DateHint(PyNone, PyNone, "low", line)

\* _extract_from_line after line = line.strip(): each pattern is searched
\* from the left
stripped_line_hint(line) ==
    IF line = <<>> THEN DateHint(PyNone, PyNone, "low", line)
    ELSE line_hint(line,
                   first_match([p \in 1..Len(line) |-> full_range_at(line, p)], <<>>),
                   first_match([p \in 1..Len(line) |-> year_range_at(line, p)], <<>>),
                   first_match([p \in 1..Len(line) |-> single_date_at(line, p)], <<>>),
                   extract_range(line))

\* DatePreProcessor._extract_from_line
_extract_from_line(raw) == stripped_line_hint(str_strip(raw))

\* extract_all_dates with the lines numbered from 1
extract_all_dates_from_one(text) ==
    LET results(hints) ==
          [n \in {k \in DOMAIN hints : Truthy(hints[k].start_date)} |-> hints[n]]
    IN  results([n \in 1..Len(split_lines(text)) |->
                    _extract_from_line(split_lines(text)[n])])

\* DatePreProcessor.extract_all_dates: the dict {line_num: DateHint} as a
\* function on the 0-based numbers of the lines that carry a start date
extract_all_dates(text) ==
    LET results(hints) ==
          [n \in {k \in DOMAIN hints : Truthy(hints[k].start_date)} |-> hints[n]]
    IN  results([n \in 0..(Len(split_lines(text)) - 1) |->
                    _extract_from_line(split_lines(text)[n + 1])])

----------------------------------------------------------------------------
(* HeuristicExtractor                                                      *)

\* the section headings that never open a role
EXCLUDE == {
    <<"R","E","S","U","M","E","N">>,
    <<"H","A","B","I","L","I","D","A","D","E","S">>,
    <<"I","D","I","O","M","A","S">>,
    <<"O","T","R","O","S">>,
    <<"E","D","U","C","A","C","I","Oacute","N">>,
    <<"C","E","R","T","I","F","I","C","A","C","I","O","N","E","S">>,
    <<"C","O","M","P","E","T","E","N","C","I","A","S">>,
    <<"E","S","T","U","D","I","O","S">>,
    <<"E","X","P","E","R","I","E","N","C","I","A">>,
    <<"E","X","P","E","R","I","E","N","C","E">>,
    <<"E","D","U","C","A","T","I","O","N">>,
    <<"S","K","I","L","L","S">>,
    <<"C","O","N","T","A","C","T","O">>,
    <<"C","O","N","T","A","C","T">>
}

\* the words of DATE_REGEX, lower case
date_regex_words == {
    <<"p","r","e","s","e","n","t">>,
    <<"a","c","t","u","a","l","i","d","a","d">>,
    <<"c","u","r","r","e","n","t">>,
    <<"n","o","w">>,
    <<"e","n","e">>,
    <<"f","e","b">>,
    <<"m","a","r">>,
    <<"a","b","r">>,
    <<"m","a","y">>,
    <<"j","u","n">>,
    <<"j","u","l">>,
    <<"a","g","o">>,
    <<"s","e","p">>,
    <<"o","c","t">>,
    <<"n","o","v">>,
    <<"d","i","c">>,
    <<"j","a","n">>,
    <<"a","p","r">>,
    <<"a","u","g">>,
    <<"d","e","c">>
}

\* DATE_REGEX.search(line) is not None
has_date(line) ==
    \/ \E p \in 1..Len(line) : four_digits_at(line, p)
    \/ \E w \in date_regex_words : Contains(str_lower(line), w)

\* the characters the only-a-date test removes: digits, white space, the
\* dashes, "/", "|", the brackets, the full stop and the letters of the date
\* words, in either case
IsDateChar(c) ==
    \/ IsDigit(c) \/ IsSpace(c) \/ IsDash(c)
    \/ c \in {"/", "|", "(", ")", "."}
    \/ LowerChar(c) \in {"a", "b", "c", "d", "e", "f", "g", "i", "j", "l", "m",
                         "n", "o", "p", "r", "s", "t", "u", "v", "w", "y"}

is_only_date(line) ==
    has_date(line) /\ Len(SelectSeq(line, LAMBDA c : ~IsDateChar(c))) < 3

is_bullet(line) ==
    Len(line) >= 1 /\ line[1] \in {"-", "*", "bullet", "+", "arrow", "check"}

is_header_candidate(line) ==
    /\ ~is_bullet(line)
    /\ 3 < Len(line) /\ Len(line) < 100
    /\ ~\E x \in EXCLUDE : Contains(str_upper(line), x)

\* the stripped, non-empty lines of the text
stripped_lines(text) ==
    SelectSeq([i \in 1..Len(split_lines(text)) |-> str_strip(split_lines(text)[i])],
              LAMBDA l : l # <<>>)

\* Phase 1 with the date-only lines left out of the chunks and the lead-in
RECURSIVE chunking_without_dates(_, _)
chunking_without_dates(lines, n) ==
    IF n = 0 THEN [chunks |-> <<>>, lead_in |-> <<>>]
    ELSE LET acc == chunking_without_dates(lines, n - 1)
             line == lines[n]
             k == Len(acc.chunks)
         IN  IF is_header_candidate(line) /\ ~is_only_date(line)
             THEN [acc EXCEPT !.chunks = Append(@, [header |-> line, description |-> <<>>])]
             ELSE IF is_only_date(line) THEN acc
             ELSE IF k > 0
             THEN [acc EXCEPT !.chunks[k].description = Append(@, line)]
             ELSE [acc EXCEPT !.lead_in = Append(@, line)]

\* Phase 1 over the first n lines: the chunks found so far, the one being
\* filled last, and the lines met before the first header
RECURSIVE chunking(_, _)
chunking(lines, n) ==
    IF n = 0 THEN [chunks |-> <<>>, lead_in |-> <<>>]
    ELSE LET acc == chunking(lines, n - 1)
             line == lines[n]
             k == Len(acc.chunks)
         IN  IF is_header_candidate(line) /\ ~is_only_date(line)
             THEN [acc EXCEPT !.chunks = Append(@, [header |-> line, description |-> <<>>])]
             ELSE IF k > 0
             THEN [acc EXCEPT !.chunks[k].description = Append(@, line)]
             ELSE [acc EXCEPT !.lead_in = Append(@, line)]

\* "\n".join(lines)
RECURSIVE join_lines(_)
join_lines(lines) ==
    IF lines = <<>> THEN <<>>
    ELSE IF Len(lines) = 1 THEN lines[1]
    ELSE lines[1] \o <<"\n">> \o join_lines(Tail(lines))

\* the length of \b(20\d{2}|19\d{2}|Present|Actualidad|Current|Now)\b
\* matched at index i, 0 when it does not match
header_date_len(s, i) ==
    LET year == /\ i + 3 <= Len(s)
                /\ <<s[i], s[i + 1]>> \in {<<"2", "0">>, <<"1", "9">>}
                /\ IsDigit(s[i + 2]) /\ IsDigit(s[i + 3])
        words == {w \in {range_end_words[k] : k \in {1, 3, 4, 5}} : word_at(s, i, w)}
        n == IF year THEN 4
             ELSE IF words # {} THEN Len(CHOOSE w \in words : TRUE)
             ELSE 0
    IN  IF n > 0 /\ WordBoundary(s, i) /\ WordBoundary(s, i + n) THEN n ELSE 0

\* re.sub of that pattern by '' from index i on
RECURSIVE remove_header_dates(_, _)
remove_header_dates(s, i) ==
    IF i > Len(s) THEN <<>>
    ELSE IF header_date_len(s, i) > 0
         THEN remove_header_dates(s, i + header_date_len(s, i))
         ELSE <<s[i]>> \o remove_header_dates(s, i + 1)

\* Phase 2, step 1: the range of the header, or the range of the first
\* description line when the header has none and that line has one
chunk_range(header, desc_lines) ==
    LET pick(in_header, in_desc) ==
          IF in_header[1] = s_Unknown /\ desc_lines # <<>>
             /\ in_desc[1] # s_Unknown
          THEN in_desc ELSE in_header
    IN  pick(extract_range(header), extract_range(desc_lines[1]))

\* Phase 2, step 2: the header without its years and ongoing words, when a
\* range was found
clean_header_of(header, range) ==
    IF range[1] # s_Unknown
    THEN str_strip(remove_header_dates(header, 1))
    ELSE header

\* re.split(r'[,|@]', clean_header, 1): <<company, title>>
split_header(clean_header) ==
    LET seps == {i \in 1..Len(clean_header) : clean_header[i] \in {",", "|", "@"}}
        cut == CHOOSE i \in seps : \A j \in seps : i <= j
    IN  IF seps # {}
        THEN <<str_strip(SubSeq(clean_header, 1, cut - 1)),
               str_strip(SubSeq(clean_header, cut + 1, Len(clean_header)))>>
        ELSE <<<<"C", "o", "m", "p", "a", "n", "y">>, clean_header>>

\* Phase 2, step 3: the ExperienceEntry of a chunk
entry_of(desc_lines, range, clean_header) ==
    ExperienceEntry(
        (IF split_header(clean_header)[2] # <<>>
         THEN split_header(clean_header)[2] ELSE clean_header),
        split_header(clean_header)[1],
        (IF range[1] # s_Unknown THEN range[1] ELSE PyNone),
        (IF range[2] # s_Unknown THEN range[2] ELSE PyNone),
        (IF desc_lines # <<>> THEN join_lines(desc_lines) ELSE clean_header))

\* Phase 2 for one chunk
chunk_entry(chunk) ==
    entry_of(chunk.description,
             chunk_range(chunk.header, chunk.description),
             clean_header_of(chunk.header,
                             chunk_range(chunk.header, chunk.description)))

\* Phase 2 and the CVData returned
phase2(chunked) ==
    [full_name |-> IF chunked.lead_in # <<>> THEN chunked.lead_in[1]
                   ELSE <<"C", "a", "n", "d", "i", "d", "a", "t", "e">>,
     summary |-> join_lines(chunked.lead_in),
     experience |-> [i \in 1..Len(chunked.chunks) |->
                        chunk_entry(chunked.chunks[i])]]

\* HeuristicExtractor.extract: the CVData it returns
extract(text) ==
    phase2(chunking(stripped_lines(text), Len(stripped_lines(text))))

----------------------------------------------------------------------------
(* CVProcessor._merge_date_hints                                           *)

\* merge_entry without the test of user_adjusted: a record the user adjusted
\* is treated like any other
merge_entry_adjusted(exp, hints, lines) ==
    LET title_lower == str_lower(or_empty(exp.title))
        matching == {i \in 1..Len(lines) : Contains(str_lower(lines[i]), title_lower)}
        line_num == (CHOOSE i \in matching : \A j \in matching : i <= j) - 1
        offsets == {o \in {0, 1, 2} : /\ line_num + o \in DOMAIN hints
                                      /\ Truthy(hints[line_num + o].start_date)}
        hint == hints[line_num + (CHOOSE o \in offsets : \A j \in offsets : o <= j)]
    IN  IF Truthy(exp.start_date) THEN exp
        ELSE IF title_lower = <<>> \/ matching = {} THEN exp
        ELSE IF offsets = {} THEN exp
        ELSE [exp EXCEPT !.start_date = hint.start_date,
                         !.end_date = hint.end_date,
                         !.date_confidence = hint.confidence,
                         !.original_date_line = hint.raw_line]

\* merge_entry looking one line further, at the line of the title and the
\* next three
merge_entry_three_below(exp, hints, lines) ==
    LET title_lower == str_lower(or_empty(exp.title))
        matching == {i \in 1..Len(lines) : Contains(str_lower(lines[i]), title_lower)}
        line_num == (CHOOSE i \in matching : \A j \in matching : i <= j) - 1
        offsets == {o \in {0, 1, 2, 3} : /\ line_num + o \in DOMAIN hints
                                         /\ Truthy(hints[line_num + o].start_date)}
        hint == hints[line_num + (CHOOSE o \in offsets : \A j \in offsets : o <= j)]
    IN  IF Truthy(exp.start_date) \/ exp.user_adjusted THEN exp
        ELSE IF title_lower = <<>> \/ matching = {} THEN exp
        ELSE IF offsets = {} THEN exp
        ELSE [exp EXCEPT !.start_date = hint.start_date,
                         !.end_date = hint.end_date,
                         !.date_confidence = hint.confidence,
                         !.original_date_line = hint.raw_line]

\* the body of the loop over cv_data.experience, for one record
merge_entry(exp, hints, lines) ==
    LET title_lower == str_lower(or_empty(exp.title))
        matching == {i \in 1..Len(lines) : Contains(str_lower(lines[i]), title_lower)}
        line_num == (CHOOSE i \in matching : \A j \in matching : i <= j) - 1
        offsets == {o \in {0, 1, 2} : /\ line_num + o \in DOMAIN hints
                                      /\ Truthy(hints[line_num + o].start_date)}
        hint == hints[line_num + (CHOOSE o \in offsets : \A j \in offsets : o <= j)]
    IN  IF Truthy(exp.start_date) \/ exp.user_adjusted THEN exp
        ELSE IF title_lower = <<>> \/ matching = {} THEN exp
        ELSE IF offsets = {} THEN exp
        ELSE [exp EXCEPT !.start_date = hint.start_date,
                         !.end_date = hint.end_date,
                         !.date_confidence = hint.confidence,
                         !.original_date_line = hint.raw_line]

\* _merge_date_hints on cv_data.experience
_merge_date_hints(experience_list, hints, raw) ==
    [i \in 1..Len(experience_list) |->
        merge_entry(experience_list[i], hints, split_lines(raw))]

----------------------------------------------------------------------------
(* TriageDaemon                                                            *)

REQUIRED_KEYWORDS == {
    <<"e","x","p","e","r","i","e","n","c","i","a">>,
    <<"e","d","u","c","a","c","i","oacute","n">>,
    <<"e","d","u","c","a","t","i","o","n">>,
    <<"e","x","p","e","r","i","e","n","c","e">>,
    <<"s","k","i","l","l","s">>,
    <<"h","a","b","i","l","i","d","a","d","e","s">>,
    <<"r","e","s","u","m","eacute">>,
    <<"c","u","r","r","i","c","u","l","u","m">>,
    <<"c","v">>,
    <<"p","e","r","f","i","l">>,
    <<"p","r","o","f","i","l","e">>,
    <<"l","a","b","o","r","a","l">>,
    <<"p","r","o","f","e","s","s","i","o","n","a","l">>,
    <<"a","c","a","d","e","m","y">>
}

MIN_KEYWORDS_MATCH == 2

\* TriageDaemon.classify_document: at least 50 characters and at least
\* MIN_KEYWORDS_MATCH of the keywords
classify_document(text) ==
    /\ Len(text) >= 50
    /\ Cardinality({kw \in REQUIRED_KEYWORDS : Contains(str_lower(text), kw)})
           >= MIN_KEYWORDS_MATCH

----------------------------------------------------------------------------
(* format_to_dict and the CVData rebuilt from cv_json                      *)

\* ExperienceEntry.model_dump(exclude_none=True): the fields that are None
\* are left out of the dict
dump_entry(e) ==
    [k \in DOMAIN e \ {f \in {"title", "company", "start_date", "end_date",
                               "description", "original_date_line"} :
                            e[f] = PyNone} |-> e[k]]

\* format_to_dict(cv_data_obj), restricted to the name and the experience
format_to_dict(name, experience_list) ==
    [k \in {"experience"} \cup (IF name = PyNone THEN {} ELSE {"full_name"}) |->
        IF k = "experience"
        THEN [i \in 1..Len(experience_list) |-> dump_entry(experience_list[i])]
        ELSE name]

\* d.get(key, default)
dict_get(d, key, default) == IF key \in DOMAIN d THEN d[key] ELSE default

\* ExperienceEntry built from the dict d: a missing field takes the schema's default and the
\* validator runs again
load_entry(d) ==
    check_dates([title |-> dict_get(d, "title", PyNone),
                 company |-> dict_get(d, "company", PyNone),
                 start_date |-> dict_get(d, "start_date", PyNone),
                 end_date |-> dict_get(d, "end_date", PyNone),
                 description |-> dict_get(d, "description", <<>>),
                 date_confidence |-> d.date_confidence,
                 user_adjusted |-> d.user_adjusted,
                 original_date_line |-> dict_get(d, "original_date_line", PyNone)])

\* load_experience with the records taken in reverse order
load_experience_reversed(cv_json) ==
    [i \in 1..Len(cv_json.experience) |->
        load_entry(cv_json.experience[Len(cv_json.experience) + 1 - i])]

\* the experience of the CVData built from cv_json, the list enrich_cv hands to the analyzer
load_experience(cv_json) ==
    [i \in 1..Len(cv_json.experience) |-> load_entry(cv_json.experience[i])]

----------------------------------------------------------------------------
(* Inputs of the analyzer                                                  *)

MaxRecords == 3

Todays == {<<2021, 3, 15>>}

\* tag_cv has not been called
not_tagged == [outcome |-> "pending"]

\* format_to_dict, or the analyzer, has not been called
pending == [pending |-> TRUE]

\* enrich_cv has not returned
no_enrichment == [state |-> "pending"]

\* process_cv is not running and normalize has not been called on its own:
\* their variables hold their initial values
pipeline_idle ==
    /\ date_segment = <<>>
    /\ normalized_date = pending
    /\ date_range = pending
    /\ chunk_state = pending
    /\ sorter_dates = pending
    /\ analyzer_dates = pending
    /\ raw_text = <<>>
    /\ date_hints = <<>>
    /\ tagged = not_tagged
    /\ full_name = PyNone
    /\ summary = <<>>
    /\ sort_input = <<>>
    /\ final_json = pending
    /\ analyzer_input = <<>>
    /\ enrichment = no_enrichment
    /\ trace = <<>>

----------------------------------------------------------------------------
(* The analyzer on its own: any list of records, in any order              *)

InitAnalyzer ==
    /\ pc = "input"
    /\ today \in Todays
    /\ experience = <<>>
    /\ timeline = pending
    /\ pipeline_idle

\* the caller appends one more record to cv_data.experience
AddExperience ==
    /\ pc = "input"
    /\ Len(experience) < MaxRecords
    /\ \E s \in StartStrings, e \in EndStrings :
          experience' = Append(experience, ExperienceEntry(s_Job, PyNone, s, e, <<>>))
    /\ UNCHANGED <<pc, today, sorter_dates, analyzer_dates, chunk_state,
                   date_range, date_segment, normalized_date, timeline,
                   pipeline>>

\* TimelineAnalyzer().analyze(cv_data)
Analyze ==
    /\ pc = "input"
    /\ timeline' = analyze(experience, today)
    /\ pc' = "analyzed"
    /\ UNCHANGED <<today, sorter_dates, analyzer_dates, chunk_state,
                   date_range, date_segment, normalized_date, experience,
                   pipeline>>

NextAnalyzer == AddExperience \/ Analyze

SpecAnalyzer == InitAnalyzer /\ [][NextAnalyzer]_vars

----------------------------------------------------------------------------
(* A career entered in chronological order: one role per calendar year,    *)
(* the k-th role starting in January of 2010 + k - 1                       *)

MaxCareer == 6

\* the roles the k-th year of the career can hold: two months, seven months,
\* still running, or entered without a start date
CareerRoles(k) ==
    { ExperienceEntry(s_Job, PyNone, career_month(k, <<"0", "1">>), career_month(k, <<"0", "3">>), <<>>),
      ExperienceEntry(s_Job, PyNone, career_month(k, <<"0", "1">>), career_month(k, <<"0", "8">>), <<>>),
      ExperienceEntry(s_Job, PyNone, career_month(k, <<"0", "1">>), s_Present, <<>>),
      ExperienceEntry(s_Job, PyNone, PyNone, career_month(k, <<"0", "3">>), <<>>) }

\* the caller appends the role of the next year
AddRole ==
    /\ pc = "input"
    /\ Len(experience) < MaxCareer
    /\ \E r \in CareerRoles(Len(experience)) : experience' = Append(experience, r)
    /\ UNCHANGED <<pc, today, sorter_dates, analyzer_dates, chunk_state,
                   date_range, date_segment, normalized_date, timeline,
                   pipeline>>

NextCareer == AddRole \/ Analyze

SpecCareer == InitAnalyzer /\ [][NextCareer]_vars

----------------------------------------------------------------------------
(* The analyzer and the sorter on records whose dates are malformed        *)

MaxMalformed == 2

\* the start and end dates of the records: absent, the year 0000, free
\* text ("soon"), a month outside 1..12 ("2020-13"), a valid date ("2019-07")
MalformedDates ==
    {PyNone, s_0000, <<"s","o","o","n">>, <<"2","0","2","0","-","1","3">>,
     <<"2","0","1","9","-","0","7">>}

\* the caller appends one more record to cv_data.experience
AddMalformed ==
    /\ pc = "input"
    /\ Len(experience) < MaxMalformed
    /\ \E s \in MalformedDates, e \in MalformedDates :
          experience' = Append(experience, ExperienceEntry(s_Job, PyNone, s, e, <<>>))
    /\ UNCHANGED <<pc, today, sorter_dates, analyzer_dates, chunk_state,
                   date_range, date_segment, normalized_date, timeline,
                   pipeline>>

\* TimelineSorter.sort(cv_data)
SortRecords ==
    /\ pc = "input"
    /\ sort_input' = experience
    /\ experience' = sort(experience, today)
    /\ pc' = "sorted"
    /\ UNCHANGED <<today, sorter_dates, analyzer_dates, chunk_state,
                   date_range, date_segment, normalized_date, timeline,
                   raw_text, date_hints, tagged, full_name, summary,
                   final_json, analyzer_input, enrichment, trace>>

NextMalformed == AddMalformed \/ Analyze \/ SortRecords

SpecMalformed == InitAnalyzer /\ [][NextMalformed]_vars

----------------------------------------------------------------------------
(* process_cv: the texts it is given and what the two LLM services may do  *)

\* a CV with dated roles
cv_dated ==
    <<"J","a","n","e"," ","D","o","e">> \o <<"\n">> \o
    <<"P","r","o","f","i","l","e">> \o <<"\n">> \o
    <<"E","X","P","E","R","I","E","N","C","E">> \o <<"\n">> \o
    <<"A","c","m","e",","," ","E","n","g","i","n","e","e","r">> \o <<"\n">> \o
    <<"J","a","n"," ","2","0","1","8"," ","-"," ","M","a","r"," ","2","0","1","9">> \o <<"\n">> \o
    <<"B","u","i","l","t"," ","t","o","o","l","s">> \o <<"\n">> \o
    <<"G","l","o","b","e","x"," ","|"," ","A","n","a","l","y","s","t"," ","2","0","1","9"," ","-"," ","P","r","e","s","e","n","t">> \o <<"\n">> \o
    <<"-"," ","r","e","p","o","r","t","s">> \o <<"\n">> \o
    <<"S","K","I","L","L","S">> \o <<"\n">> \o
    <<"P","y","t","h","o","n">>

\* a CV whose only role carries the year 0000
cv_zero_year ==
    <<"C","V">> \o <<"\n">> \o
    <<"p","e","r","f","i","l"," ","l","a","b","o","r","a","l">> \o <<"\n">> \o
    <<"I","n","i","t","e","c","h",","," ","C","l","e","r","k"," ","0","0","0","0"," ","-"," ","2","0","1","9">> \o <<"\n">> \o
    <<"-"," ","f","i","l","i","n","g"," ","a","n","d"," ","m","o","r","e"," ","f","i","l","i","n","g",","," ","f","o","r"," ","t","h","e"," ","e","x","p","e","r","i","e","n","c","e">>

\* a CV without any date
cv_no_dates ==
    <<"C","u","r","r","i","c","u","l","u","m">> \o <<"\n">> \o
    <<"P","r","o","f","i","l","e">> \o <<"\n">> \o
    <<"F","r","e","e","l","a","n","c","e"," ","w","r","i","t","e","r">> \o <<"\n">> \o
    <<"-"," ","a","r","t","i","c","l","e","s">> \o <<"\n">> \o
    <<"S","k","i","l","l","s",":"," ","w","r","i","t","i","n","g"," ","a","n","d"," ","e","d","i","t","i","n","g"," ","o","f"," ","t","e","x","t">>

\* a text of CV length without CV keywords
letter ==
    <<"D","e","a","r"," ","t","e","a","m",","," ","t","h","a","n","k"," ","y","o","u"," ","f","o","r"," ","t","h","e"," ","l","o","v","e","l","y"," ","d","i","n","n","e","r"," ","l","a","s","t"," ","n","i","g","h","t",","," ","y","o","u","r","s"," ","B","o","b">>

\* a text too short to be a CV
note ==
    <<"h","e","l","l","o">>

Texts == {cv_dated, cv_zero_year, cv_no_dates, letter, note}

\* experience lists the tagger may return, each record built by the schema
tagged_dated ==
    <<ExperienceEntry(<<"E","n","g","i","n","e","e","r">>, <<"A","c","m","e">>,
                      <<"2","0","1","8","-","0","1">>, <<"2","0","1","9","-","0","3">>,
                      <<"B","u","i","l","t"," ","t","o","o","l","s">>)>>

tagged_undated ==
    <<ExperienceEntry(<<"E","n","g","i","n","e","e","r">>, <<"A","c","m","e">>, PyNone, PyNone, PyNone),
      ExperienceEntry(<<"A","n","a","l","y","s","t">>, <<"G","l","o","b","e","x">>, PyNone, PyNone,
                      <<"r","e","p","o","r","t","s">>)>>

tagged_zero_year ==
    <<ExperienceEntry(<<"C","l","e","r","k">>, <<"I","n","i","t","e","c","h">>, s_0000, <<"2","0","1","9">>,
                      PyNone)>>

TaggedLists == {<<>>, tagged_dated, tagged_undated, tagged_zero_year}

\* what tag_cv can do: raise once its retries are spent, return None (the
\* completion carried no parsed message), or return a CVData
TagOutcomes ==
    {[outcome |-> "raised"], [outcome |-> "none"]} \cup
    {[outcome |-> "parsed", full_name |-> n, summary |-> <<>>, experience |-> l] :
        n \in {PyNone, <<"J","a","n","e"," ","D","o","e">>}, l \in TaggedLists}

\* EnrichmentData.timeline_analysis as parsed from the model's answer:
\* <<>> for None, or a timeline_analysis the model wrote itself
LlmTimelines ==
    {<<>>,
     <<[total_years_experience |-> 50, avg_tenure_months |-> 60,
        detected_gaps |-> <<>>, job_hopping_risk |-> <<FALSE>>,
        stability_score |-> 9]>>}

\* enrich_cv returned None
enrichment_none == [state |-> "none"]

\* the EnrichmentData enrich_cv returns when a model answered: the local
\* analysis replaces the model's own unless the analyzer raised
enrichment_data(timeline_result, parsed_timeline) ==
    [state |-> "data",
     timeline_analysis |-> IF timeline_result # analyze_raised
                           THEN <<timeline_result>> ELSE parsed_timeline]

----------------------------------------------------------------------------
(* process_cv, step by step                                                *)

Init ==
    /\ pc = "triage"
    /\ today \in Todays
    /\ raw_text \in Texts
    /\ date_hints = <<>>
    /\ tagged = not_tagged
    /\ full_name = PyNone
    /\ summary = <<>>
    /\ experience = <<>>
    /\ sort_input = <<>>
    /\ final_json = pending
    /\ analyzer_input = <<>>
    /\ timeline = pending
    /\ enrichment = no_enrichment
    /\ trace = <<>>
    /\ date_segment = <<>>
    /\ normalized_date = pending
    /\ date_range = pending
    /\ chunk_state = pending
    /\ sorter_dates = pending
    /\ analyzer_dates = pending

\* Step 0: the gatekeeper; a rejected text ends the run with ValueError
Triage ==
    /\ pc = "triage"
    /\ pc' = IF classify_document(raw_text) THEN "scan" ELSE "rejected"
    /\ trace' = Append(trace, "triage")
    /\ UNCHANGED <<today, sorter_dates, analyzer_dates, chunk_state,
                   date_range, date_segment, normalized_date, raw_text,
                   date_hints, tagged, full_name, summary, experience,
                   sort_input, final_json, analyzer_input, timeline,
                   enrichment>>

\* Step 2.5: the date hints are taken from the raw text before the LLM runs
ScanDates ==
    /\ pc = "scan"
    /\ date_hints' = extract_all_dates(raw_text)
    /\ pc' = "tag"
    /\ trace' = Append(trace, "scan")
    /\ UNCHANGED <<today, sorter_dates, analyzer_dates, chunk_state,
                   date_range, date_segment, normalized_date, raw_text,
                   tagged, full_name, summary, experience, sort_input,
                   final_json, analyzer_input, timeline, enrichment>>

\* Step 3: tag_cv inside its try/except; an exception leaves cv_data_obj None
Tag ==
    /\ pc = "tag"
    /\ \E outcome \in TagOutcomes :
          /\ tagged' = outcome
          /\ IF outcome.outcome = "parsed"
             THEN /\ full_name' = outcome.full_name
                  /\ summary' = outcome.summary
                  /\ experience' = outcome.experience
             ELSE UNCHANGED <<full_name, summary, experience>>
    /\ pc' = "check"
    /\ trace' = Append(trace, "tag")
    /\ UNCHANGED <<today, sorter_dates, analyzer_dates, chunk_state,
                   date_range, date_segment, normalized_date, raw_text,
                   date_hints, sort_input, final_json, analyzer_input,
                   timeline, enrichment>>

\* needs_fallback with the test of the experience list dropped (only a
\* missing CVData triggers the Recoverer)
needs_fallback_on_crash(tag_result, experience_list) ==
    tag_result.outcome # "parsed"

\* not cv_data_obj or not cv_data_obj.experience
needs_fallback(tag_result, experience_list) ==
    tag_result.outcome # "parsed" \/ experience_list = <<>>

\* the fallback branch: without a CVData the Recoverer's replaces it whole,
\* with one only the experience and a missing name are taken from it
Recover ==
    /\ pc = "check"
    /\ needs_fallback(tagged, experience)
    /\ \E fallback_data \in {extract(raw_text)} :
          IF tagged.outcome # "parsed"
          THEN /\ full_name' = fallback_data.full_name
               /\ summary' = fallback_data.summary
               /\ experience' = fallback_data.experience
          ELSE /\ experience' = fallback_data.experience
               /\ full_name' = IF Truthy(full_name) THEN full_name
                               ELSE fallback_data.full_name
               /\ UNCHANGED summary
    /\ pc' = "merge"
    /\ trace' = Append(trace, "recover")
    /\ UNCHANGED <<today, sorter_dates, analyzer_dates, chunk_state,
                   date_range, date_segment, normalized_date, raw_text,
                   date_hints, tagged, sort_input, final_json,
                   analyzer_input, timeline, enrichment>>

\* the tagger's experience list is kept
KeepTagged ==
    /\ pc = "check"
    /\ ~needs_fallback(tagged, experience)
    /\ pc' = "merge"
    /\ UNCHANGED <<today, sorter_dates, analyzer_dates, chunk_state,
                   date_range, date_segment, normalized_date, raw_text,
                   date_hints, tagged, full_name, summary, experience,
                   sort_input, final_json, analyzer_input, timeline,
                   enrichment, trace>>

\* Step 3.5: _merge_date_hints
Merge ==
    /\ pc = "merge"
    /\ experience' = _merge_date_hints(experience, date_hints, raw_text)
    /\ pc' = "sort"
    /\ trace' = Append(trace, "merge")
    /\ UNCHANGED <<today, sorter_dates, analyzer_dates, chunk_state,
                   date_range, date_segment, normalized_date, raw_text,
                   date_hints, tagged, full_name, summary, sort_input,
                   final_json, analyzer_input, timeline, enrichment>>

\* TimelineSorter.sort(cv_data_obj)
Sort ==
    /\ pc = "sort"
    /\ sort_input' = experience
    /\ experience' = sort(experience, today)
    /\ pc' = "format"
    /\ trace' = Append(trace, "sort")
    /\ UNCHANGED <<today, sorter_dates, analyzer_dates, chunk_state,
                   date_range, date_segment, normalized_date, raw_text,
                   date_hints, tagged, full_name, summary, final_json,
                   analyzer_input, timeline, enrichment>>

\* Step 4: format_to_dict
Format ==
    /\ pc = "format"
    /\ final_json' = format_to_dict(full_name, experience)
    /\ pc' = "analyze"
    /\ trace' = Append(trace, "format")
    /\ UNCHANGED <<today, sorter_dates, analyzer_dates, chunk_state,
                   date_range, date_segment, normalized_date, raw_text,
                   date_hints, tagged, full_name, summary, experience,
                   sort_input, analyzer_input, timeline, enrichment>>

\* enrich_cv, first part: the CVData is rebuilt from the dict and analysed;
\* an exception leaves timeline_result None
AnalyzeTimeline ==
    /\ pc = "analyze"
    /\ analyzer_input' = load_experience(final_json)
    /\ timeline' = analyze(analyzer_input', today)
    /\ pc' = "primary"
    /\ trace' = Append(trace, "analyze")
    /\ UNCHANGED <<today, sorter_dates, analyzer_dates, chunk_state,
                   date_range, date_segment, normalized_date, raw_text,
                   date_hints, tagged, full_name, summary, experience,
                   sort_input, final_json, enrichment>>

\* enrich_cv, the call to the enrichment model: its answer is returned with
\* the local analysis injected, or the call fails
PrimaryModel ==
    /\ pc = "primary"
    /\ \/ \E parsed_timeline \in LlmTimelines :
             /\ enrichment' = enrichment_data(timeline, parsed_timeline)
             /\ pc' = "returned"
       \/ /\ pc' = "fallback_model"
          /\ UNCHANGED enrichment
    /\ trace' = Append(trace, "primary")
    /\ UNCHANGED <<today, sorter_dates, analyzer_dates, chunk_state,
                   date_range, date_segment, normalized_date, raw_text,
                   date_hints, tagged, full_name, summary, experience,
                   sort_input, final_json, analyzer_input, timeline>>

\* enrich_cv, after the primary call failed: the structural model is tried
\* when one is configured that differs from the primary; when there is none,
\* or when it fails too, enrich_cv returns None
FallbackModel ==
    /\ pc = "fallback_model"
    /\ \/ \E parsed_timeline \in LlmTimelines :
             enrichment' = enrichment_data(timeline, parsed_timeline)
       \/ enrichment' = enrichment_none
    /\ pc' = "returned"
    /\ trace' = Append(trace, "fallback_model")
    /\ UNCHANGED <<today, sorter_dates, analyzer_dates, chunk_state,
                   date_range, date_segment, normalized_date, raw_text,
                   date_hints, tagged, full_name, summary, experience,
                   sort_input, final_json, analyzer_input, timeline>>

Next ==
    \/ Triage
    \/ ScanDates
    \/ Tag
    \/ Recover
    \/ KeepTagged
    \/ Merge
    \/ Sort
    \/ Format
    \/ AnalyzeTimeline
    \/ PrimaryModel
    \/ FallbackModel

Spec == Init /\ [][Next]_vars

----------------------------------------------------------------------------
(* The sorter on its own: records told apart by their titles               *)

MaxSorted == 3

\* the <<start_date, end_date>> a record may carry: the three roles of
\* verify_chronology.py, two more open roles (end "Present", end absent), a
\* role ending with another (2018), a role whose end lies after today, and
\* a role without a start
SorterDates ==
    {<<<<"2","0","1","0">>, <<"2","0","1","2">>>>,
     <<<<"2","0","2","0">>, s_Present>>,
     <<<<"2","0","1","5">>, <<"2","0","1","8">>>>,
     <<<<"2","0","1","8">>, s_Present>>,
     <<<<"2","0","1","5">>, PyNone>>,
     <<<<"2","0","1","0">>, <<"2","0","1","8">>>>,
     <<<<"2","0","2","0">>, <<"2","0","2","2">>>>,
     <<PyNone, <<"2","0","1","8">>>>}

\* the caller appends one more record, titled by its position ("Job a",
\* "Job b", ...), to cv_data.experience
AddTitled ==
    /\ pc = "input"
    /\ Len(experience) < MaxSorted
    /\ \E d \in SorterDates :
          experience' = Append(experience,
              ExperienceEntry(s_Job \o <<" ", LowerCase[Len(experience) + 1]>>,
                              PyNone, d[1], d[2], <<>>))
    /\ UNCHANGED <<pc, today, sorter_dates, analyzer_dates, chunk_state,
                   date_range, date_segment, normalized_date, timeline,
                   pipeline>>

NextSorter == AddTitled \/ SortRecords

SpecSorter == InitAnalyzer /\ [][NextSorter]_vars

----------------------------------------------------------------------------
(* The merge on its own: records with and without dates, adjusted by the  *)
(* user or not, against the hints of three texts                           *)

MaxMerged == 2

\* titles followed by a hint on the next line, on the same line and two
\* lines below
text_near ==
    <<"A","c","m","e",","," ","E","n","g","i","n","e","e","r">> \o <<"\n">> \o
    <<"J","a","n"," ","2","0","1","8"," ","-"," ","M","a","r"," ","2","0","1","9">> \o <<"\n">> \o
    <<"B","u","i","l","t"," ","t","o","o","l","s">> \o <<"\n">> \o
    <<"G","l","o","b","e","x"," ","|"," ","A","n","a","l","y","s","t"," ","2","0","1","9"," ","-"," ","P","r","e","s","e","n","t">> \o <<"\n">> \o
    <<"P","i","l","o","t">> \o <<"\n">> \o
    <<>> \o <<"\n">> \o
    <<"M","a","r","z","o"," ","2","0","2","0">>

\* a title whose first line has no hint within two lines (the hint three
\* lines below and the later line with the title and a year are out of
\* reach), and a title followed by two hints
text_far ==
    <<"E","N","G","I","N","E","E","R"," ","w","a","n","t","e","d">> \o <<"\n">> \o
    <<"n","o","t","e","s">> \o <<"\n">> \o
    <<"m","o","r","e"," ","n","o","t","e","s">> \o <<"\n">> \o
    <<"2","0","1","9"," ","-"," ","2","0","2","1">> \o <<"\n">> \o
    <<"E","n","g","i","n","e","e","r"," ","2","0","1","5">> \o <<"\n">> \o
    <<"A","n","a","l","y","s","t">> \o <<"\n">> \o
    <<"0","3","/","2","0","1","9">> \o <<"\n">> \o
    <<"2","0","2","0"," ","-"," ","N","o","w">>

\* titles in a text without dates
text_undated ==
    <<"E","n","g","i","n","e","e","r">> \o <<"\n">> \o
    <<"A","n","a","l","y","s","t"," ","a","n","d"," ","P","i","l","o","t">>

MergeTexts == {text_near, text_far, text_undated}

\* the titles of the records: three found in the texts, and no title
MergeTitles ==
    {<<"E","n","g","i","n","e","e","r">>, <<"A","n","a","l","y","s","t">>,
     <<"P","i","l","o","t">>, PyNone}

InitMerge ==
    /\ pc = "input"
    /\ today \in Todays
    /\ experience = <<>>
    /\ timeline = pending
    /\ raw_text \in MergeTexts
    /\ date_hints = extract_all_dates(raw_text)
    /\ tagged = not_tagged
    /\ full_name = PyNone
    /\ summary = <<>>
    /\ sort_input = <<>>
    /\ final_json = pending
    /\ analyzer_input = <<>>
    /\ enrichment = no_enrichment
    /\ trace = <<>>
    /\ date_segment = <<>>
    /\ normalized_date = pending
    /\ date_range = pending
    /\ chunk_state = pending
    /\ sorter_dates = pending
    /\ analyzer_dates = pending

\* one more record is appended to cv_data.experience: ExperienceEntry built
\* from a title, a start date or none, and the user_adjusted flag
AddAdjustable ==
    /\ pc = "input"
    /\ Len(experience) < MaxMerged
    /\ \E t \in MergeTitles, s \in {PyNone, <<"2","0","1","7">>}, u \in BOOLEAN :
          experience' = Append(experience,
              load_entry([title |-> t, start_date |-> s,
                          date_confidence |-> "high", user_adjusted |-> u]))
    /\ UNCHANGED <<pc, today, sorter_dates, analyzer_dates, chunk_state,
                   date_range, date_segment, normalized_date, timeline,
                   pipeline>>

\* self._merge_date_hints(cv_data_obj, date_hints, raw_text)
MergeHints ==
    /\ pc = "input"
    /\ experience' = _merge_date_hints(experience, date_hints, raw_text)
    /\ pc' = "merged"
    /\ UNCHANGED <<today, sorter_dates, analyzer_dates, chunk_state,
                   date_range, date_segment, normalized_date, timeline,
                   pipeline>>

NextMerge == AddAdjustable \/ MergeHints

SpecMerge == InitMerge /\ [][NextMerge]_vars

----------------------------------------------------------------------------
(* The scanner on its own: texts made of a few kinds of line               *)

MaxLines == 3

\* the lines of the texts: "Jan 2018 - Mar 2019", "Jan 2018 - Present",
\* "2019 - 2021", "Marzo 2019", "03/2019", "Engineer", the blank line, and
\* " 2020 - Now " with a space on either side
ScanLines ==
    {<<"J","a","n"," ","2","0","1","8"," ","-"," ","M","a","r"," ","2","0","1","9">>,
     <<"J","a","n"," ","2","0","1","8"," ","-"," ","P","r","e","s","e","n","t">>,
     <<"2","0","1","9"," ","-"," ","2","0","2","1">>,
     <<"M","a","r","z","o"," ","2","0","1","9">>,
     <<"0","3","/","2","0","1","9">>,
     <<"E","n","g","i","n","e","e","r">>,
     <<>>,
     <<" ","2","0","2","0"," ","-"," ","N","o","w"," ">>}

InitScanner ==
    /\ pc = "input"
    /\ today \in Todays
    /\ experience = <<>>
    /\ timeline = pending
    /\ raw_text \in ScanLines
    /\ date_hints = <<>>
    /\ tagged = not_tagged
    /\ full_name = PyNone
    /\ summary = <<>>
    /\ sort_input = <<>>
    /\ final_json = pending
    /\ analyzer_input = <<>>
    /\ enrichment = no_enrichment
    /\ trace = <<>>
    /\ date_segment = <<>>
    /\ normalized_date = pending
    /\ date_range = pending
    /\ chunk_state = pending
    /\ sorter_dates = pending
    /\ analyzer_dates = pending

\* the text grows by one line
AddLine ==
    /\ pc = "input"
    /\ Len(split_lines(raw_text)) < MaxLines
    /\ \E line \in ScanLines : raw_text' = raw_text \o <<"\n">> \o line
    /\ UNCHANGED <<pc, today, sorter_dates, analyzer_dates, chunk_state,
                   date_range, date_segment, normalized_date, experience,
                   timeline, date_hints, tagged, full_name, summary,
                   sort_input, final_json, analyzer_input, enrichment,
                   trace>>

\* DatePreProcessor().extract_all_dates(raw_text)
ScanText ==
    /\ pc = "input"
    /\ date_hints' = extract_all_dates(raw_text)
    /\ pc' = "scanned"
    /\ UNCHANGED <<today, sorter_dates, analyzer_dates, chunk_state,
                   date_range, date_segment, normalized_date, experience,
                   timeline, raw_text, tagged, full_name, summary,
                   sort_input, final_json, analyzer_input, enrichment,
                   trace>>

NextScanner == AddLine \/ ScanText

SpecScanner == InitScanner /\ [][NextScanner]_vars

----------------------------------------------------------------------------
(* The normalizer on its own                                               *)

MaxYears == 2

\* the three-letter names of the months, English and Spanish
MonthAbbreviations ==
    <<{<<"J","a","n">>, <<"E","n","e">>},
      {<<"F","e","b">>},
      {<<"M","a","r">>},
      {<<"A","p","r">>, <<"A","b","r">>},
      {<<"M","a","y">>},
      {<<"J","u","n">>},
      {<<"J","u","l">>},
      {<<"A","u","g">>, <<"A","g","o">>},
      {<<"S","e","p">>},
      {<<"O","c","t">>},
      {<<"N","o","v">>},
      {<<"D","e","c">>, <<"D","i","c">>}>>

\* str(n) for n >= 0
RECURSIVE decimal(_)
decimal(n) ==
    LET digit(d) == <<"0", "1", "2", "3", "4", "5", "6", "7", "8", "9">>[d + 1]
    IN  IF n < 10 THEN <<digit(n)>>
        ELSE decimal(n \div 10) \o <<digit(n % 10)>>

\* the month m in two digits
two_digits(m) == IF m < 10 THEN <<"0">> \o decimal(m) ELSE decimal(m)

\* the ways the month m of the year y is written: "<Mon> <year>",
\* "<year>-<month>" and "<month>/<year>", the month with or without its
\* leading zero
WrittenAs(y, m) ==
    {a \o <<" ">> \o decimal(y) : a \in MonthAbbreviations[m]}
    \cup {decimal(y) \o <<"-">> \o mm : mm \in {decimal(m), two_digits(m)}}
    \cup {mm \o <<"/">> \o decimal(y) : mm \in {decimal(m), two_digits(m)}}

\* the years of the dates, from 2019 on
Years == 2019..(2019 + MaxYears - 1)

\* the strings normalize is given: the valid dates, the empty string, free
\* text, the ongoing words, months outside 1..12, a bare year
NormalizerInputs ==
    UNION {WrittenAs(y, m) : y \in Years, m \in 1..12} \cup
    {<<>>,
     <<"s","o","o","n">>,
     <<"N","o","w">>,
     <<"P","r","e","s","e","n","t">>,
     <<"C","u","r","r","e","n","t">>,
     <<"h","a","s","t","a"," ","a","h","o","r","a">>,
     <<"A","c","t","u","a","l","i","d","a","d">>,
     <<"P","r","e","s","e","n","t","e"," ","2","0","2","0">>,
     <<"0","3","/","2","0","2","0"," ","-"," ","c","u","r","r","e","n","t">>,
     <<"1","3","/","2","0","2","0">>,
     <<"2","0","2","0">>,
     <<"2","0","2","0","-","0","0">>,
     <<"U","n","k","n","o","w","n">>,
     <<"M","a","r","z","o"," ","d","e"," ","2","0","2","0">>,
     <<"n","/","a">>}

InitNormalizer ==
    /\ pc = "input"
    /\ today \in Todays
    /\ experience = <<>>
    /\ timeline = pending
    /\ date_segment \in NormalizerInputs
    /\ normalized_date = pending
    /\ date_range = pending
    /\ chunk_state = pending
    /\ sorter_dates = pending
    /\ analyzer_dates = pending
    /\ raw_text = <<>>
    /\ date_hints = <<>>
    /\ tagged = not_tagged
    /\ full_name = PyNone
    /\ summary = <<>>
    /\ sort_input = <<>>
    /\ final_json = pending
    /\ analyzer_input = <<>>
    /\ enrichment = no_enrichment
    /\ trace = <<>>

\* DateNormalizer.normalize(d)
Normalize ==
    /\ pc = "input"
    /\ normalized_date' = normalize(date_segment)
    /\ pc' = "normalized"
    /\ UNCHANGED <<today, sorter_dates, analyzer_dates, chunk_state,
                   date_range, date_segment, experience, timeline, pipeline>>

\* the caller hands the result back to normalize
Renormalize ==
    /\ pc = "normalized"
    /\ date_segment' = normalized_date
    /\ normalized_date' = normalize(normalized_date)
    /\ pc' = "renormalized"
    /\ UNCHANGED <<today, sorter_dates, analyzer_dates, chunk_state,
                   date_range, experience, timeline, pipeline>>

NextNormalizer == Normalize \/ Renormalize

SpecNormalizer == InitNormalizer /\ [][NextNormalizer]_vars

----------------------------------------------------------------------------
(* The range extractor on its own: texts made of a few words               *)

MaxWords == 5

\* the pieces of the texts: two dates of a month and a year, a bare year,
\* the dash, an ongoing word the extractor knows, one it does not, and two
\* plain words
RangePieces ==
    {<<"M","a","r"," ","2","0","2","3">>,
     <<"A","g","o"," ","2","0","2","5">>,
     <<"2","0","2","0">>,
     <<"-">>,
     <<"P","r","e","s","e","n","t">>,
     <<"c","u","r","r","e","n","t">>,
     <<"s","i","n","c","e">>,
     <<"E","n","g","i","n","e","e","r">>}

\* the number of words of a text whose words are one space apart
word_count(text) ==
    IF text = <<>> THEN 0
    ELSE 1 + Len(SelectSeq(text, LAMBDA c : c = " "))

InitRange ==
    /\ pc = "input"
    /\ today \in Todays
    /\ experience = <<>>
    /\ timeline = pending
    /\ raw_text = <<>>
    /\ date_range = pending
    /\ chunk_state = pending
    /\ sorter_dates = pending
    /\ analyzer_dates = pending
    /\ date_segment = <<>>
    /\ normalized_date = pending
    /\ date_hints = <<>>
    /\ tagged = not_tagged
    /\ full_name = PyNone
    /\ summary = <<>>
    /\ sort_input = <<>>
    /\ final_json = pending
    /\ analyzer_input = <<>>
    /\ enrichment = no_enrichment
    /\ trace = <<>>

\* the text grows by one piece
AddPiece ==
    /\ pc = "input"
    /\ \E piece \in RangePieces :
          /\ word_count(raw_text) + word_count(piece) <= MaxWords
          /\ raw_text' = IF raw_text = <<>> THEN piece
                         ELSE raw_text \o <<" ">> \o piece
    /\ UNCHANGED <<pc, today, sorter_dates, analyzer_dates, chunk_state,
                   date_range, date_segment, normalized_date, experience,
                   timeline, date_hints, tagged, full_name, summary,
                   sort_input, final_json, analyzer_input, enrichment,
                   trace>>

\* DateNormalizer.extract_range(raw_text)
ExtractRange ==
    /\ pc = "input"
    /\ date_range' = extract_range(raw_text)
    /\ pc' = "ranged"
    /\ UNCHANGED <<today, sorter_dates, analyzer_dates, chunk_state,
                   date_segment, normalized_date, experience, timeline,
                   pipeline>>

NextRange == AddPiece \/ ExtractRange

SpecRange == InitRange /\ [][NextRange]_vars

----------------------------------------------------------------------------
(* The Recoverer on its own: texts made of a few kinds of line             *)

MaxTextLines == 4

\* the lines of the texts: three header-like lines ("Engineer, Acme",
\* "Pilot @ Globex" and, with its dates, "Analyst 2019 - 2021"), two
\* date-only lines ("2018 - 2020", "Mar 2021 - Present"), two bullets
\* ("- built tools" and, with a year, "- led team in 2017"), the short line
\* "Ana" and the blank line
RecoverLines ==
    {<<"E","n","g","i","n","e","e","r",","," ","A","c","m","e">>,
     <<"P","i","l","o","t"," ","@"," ","G","l","o","b","e","x">>,
     <<"A","n","a","l","y","s","t"," ","2","0","1","9"," ","-"," ","2","0","2","1">>,
     <<"2","0","1","8"," ","-"," ","2","0","2","0">>,
     <<"M","a","r"," ","2","0","2","1"," ","-"," ","P","r","e","s","e","n","t">>,
     <<"-"," ","b","u","i","l","t"," ","t","o","o","l","s">>,
     <<"-"," ","l","e","d"," ","t","e","a","m"," ","i","n"," ","2","0","1","7">>,
     <<"A","n","a">>,
     <<>>}

InitRecoverer ==
    /\ pc = "input"
    /\ today \in Todays
    /\ experience = <<>>
    /\ timeline = pending
    /\ raw_text \in RecoverLines
    /\ chunk_state = pending
    /\ sorter_dates = pending
    /\ analyzer_dates = pending
    /\ date_range = pending
    /\ date_segment = <<>>
    /\ normalized_date = pending
    /\ date_hints = <<>>
    /\ tagged = not_tagged
    /\ full_name = PyNone
    /\ summary = <<>>
    /\ sort_input = <<>>
    /\ final_json = pending
    /\ analyzer_input = <<>>
    /\ enrichment = no_enrichment
    /\ trace = <<>>

\* the text grows by one line
AddTextLine ==
    /\ pc = "input"
    /\ Len(split_lines(raw_text)) < MaxTextLines
    /\ \E line \in RecoverLines : raw_text' = raw_text \o <<"\n">> \o line
    /\ UNCHANGED <<pc, today, sorter_dates, analyzer_dates, chunk_state,
                   date_range, date_segment, normalized_date, experience,
                   timeline, date_hints, tagged, full_name, summary,
                   sort_input, final_json, analyzer_input, enrichment,
                   trace>>

\* HeuristicExtractor().extract(raw_text): Phase 1 fills chunks and lead_in,
\* Phase 2 builds the CVData from them
Extract ==
    /\ pc = "input"
    /\ \E phase1 \in {chunking(stripped_lines(raw_text),
                               Len(stripped_lines(raw_text)))} :
          /\ chunk_state' = phase1
          /\ \E cv \in {phase2(phase1)} :
                /\ full_name' = cv.full_name
                /\ summary' = cv.summary
                /\ experience' = cv.experience
    /\ pc' = "extracted"
    /\ UNCHANGED <<today, sorter_dates, analyzer_dates, date_range,
                   date_segment, normalized_date, timeline, raw_text,
                   date_hints, tagged, sort_input, final_json,
                   analyzer_input, enrichment, trace>>

NextRecoverer == AddTextLine \/ Extract

SpecRecoverer == InitRecoverer /\ [][NextRecoverer]_vars

----------------------------------------------------------------------------
(* The analyzer on roles that overlap, tie, end early or end at once       *)

MaxRoles == 3

\* the <<start, end>> of the roles: a long role 2015-01 to 2020-01, two
\* short roles inside it (2016-01 to 2016-06, 2017-06 to 2018-01), a role
\* that starts a year after it and is still running, a role that starts and
\* ends in 2019-05, a role whose end 2019-01 precedes its start 2019-08, a
\* role that shares the start 2015-01 and ends 2016-06, and a role whose
\* start is Unknown
RoleDates ==
    {<< <<"2","0","1","5","-","0","1">>, <<"2","0","2","0","-","0","1">> >>,
     << <<"2","0","1","6","-","0","1">>, <<"2","0","1","6","-","0","6">> >>,
     << <<"2","0","1","7","-","0","6">>, <<"2","0","1","8","-","0","1">> >>,
     << <<"2","0","2","1","-","0","1">>, s_Present >>,
     << <<"2","0","1","9","-","0","5">>, <<"2","0","1","9","-","0","5">> >>,
     << <<"2","0","1","9","-","0","8">>, <<"2","0","1","9","-","0","1">> >>,
     << <<"2","0","1","5","-","0","1">>, <<"2","0","1","6","-","0","6">> >>,
     << s_Unknown, <<"2","0","1","9","-","0","1">> >>}

\* the caller appends one more record to cv_data.experience
AddDatedRole ==
    /\ pc = "input"
    /\ Len(experience) < MaxRoles
    /\ \E d \in RoleDates :
          experience' = Append(experience,
                               ExperienceEntry(s_Job, PyNone, d[1], d[2], <<>>))
    /\ UNCHANGED <<pc, today, sorter_dates, analyzer_dates, chunk_state,
                   date_range, date_segment, normalized_date, timeline,
                   pipeline>>

NextRoles == AddDatedRole \/ Analyze

SpecRoles == InitAnalyzer /\ [][NextRoles]_vars

----------------------------------------------------------------------------
(* The sorter, then the analyzer, on records whose dates are written in    *)
(* many forms                                                              *)

MaxWritten == 1

\* the forms of a start or end date: absent, Unknown, the ongoing words
\* Present, Current and Now, the canonical "2019-07", the bare year "2020",
\* the numeric forms "03/2020" and "2020/03", the month names "Mar 2020"
\* and "Marzo 2020", a month outside 1..12 ("2020-13") and free text
\* ("soon")
DateForms ==
    {PyNone, s_Unknown, s_Present,
     <<"C","u","r","r","e","n","t">>,
     <<"N","o","w">>,
     <<"2","0","1","9","-","0","7">>,
     <<"2","0","2","0">>,
     <<"0","3","/","2","0","2","0">>,
     <<"2","0","2","0","/","0","3">>,
     <<"M","a","r"," ","2","0","2","0">>,
     <<"M","a","r","z","o"," ","2","0","2","0">>,
     <<"2","0","2","0","-","1","3">>,
     <<"s","o","o","n">>}

\* the caller appends one more record to cv_data.experience
AddWritten ==
    /\ pc = "input"
    /\ Len(experience) < MaxWritten
    /\ \E s \in DateForms, e \in DateForms :
          experience' = Append(experience, ExperienceEntry(s_Job, PyNone, s, e, <<>>))
    /\ UNCHANGED <<pc, today, sorter_dates, analyzer_dates, chunk_state,
                   date_range, date_segment, normalized_date, timeline,
                   pipeline>>

\* TimelineSorter.sort(cv_data), with the start and end get_sort_key
\* resolved for each record of the list
SortResolving ==
    /\ pc = "input"
    /\ sorter_dates' = [i \in 1..Len(experience) |->
                           [start_date |-> experience[i].start_date,
                            end_date   |-> experience[i].end_date,
                            start      |-> get_sort_key(experience[i], today)[2],
                            end        |-> get_sort_key(experience[i], today)[1]]]
    /\ sort_input' = experience
    /\ experience' = sort(experience, today)
    /\ pc' = "sorted"
    /\ UNCHANGED <<today, analyzer_dates, chunk_state, date_range,
                   date_segment, normalized_date, timeline, raw_text,
                   date_hints, tagged, full_name, summary, final_json,
                   analyzer_input, enrichment, trace>>

\* TimelineAnalyzer().analyze(cv_data) on the sorted list, with the start
\* (as the key of its sort) and the end its walk resolved for each record
\* that has a start date
AnalyzeResolving ==
    /\ pc = "sorted"
    /\ analyzer_dates' = [i \in 1..Len(dated(experience)) |->
                             [start_date |-> dated(experience)[i].start_date,
                              end_date   |-> dated(experience)[i].end_date,
                              start      |-> start_key(dated(experience)[i]),
                              end        |-> _get_end_date(dated(experience)[i].end_date,
                                                           today)]]
    /\ timeline' = analyze(experience, today)
    /\ pc' = "analyzed"
    /\ UNCHANGED <<today, sorter_dates, chunk_state, date_range, date_segment,
                   normalized_date, experience, pipeline>>

NextResolve == AddWritten \/ SortResolving \/ AnalyzeResolving

SpecResolve == InitAnalyzer /\ [][NextResolve]_vars

----------------------------------------------------------------------------
(* Properties of the analyzer                                              *)

\* analyze has returned a TimelineAnalysis (it did not raise)
Returned == pc = "analyzed" /\ timeline # analyze_raised

\* the record's start resolves to a date
StartResolves(e) ==
    _parse_date(e.start_date) # NoDate /\ _parse_date(e.start_date) # ValueError

\* the records whose start resolves, in input order
Resolved(exps) == SelectSeq(exps, StartResolves)

NumDated(exps) == Len(Resolved(exps))

\* the latest of a non-empty set of dates
LatestOf(ds) == CHOOSE d \in ds : \A o \in ds : ~DateLT(d, o)

\* the earliest of a non-empty set of dates
EarliestOf(ds) == CHOOSE d \in ds : \A o \in ds : ~DateLT(o, d)

\* C4: analyze returns total_years_experience = 0, avg_tenure_months = 0,
\* stability_score = 0 and detected_gaps = [] whenever the list is empty or
\* every start is absent or Unknown.
C4_UndatedGivesZeros ==
    ( /\ pc = "analyzed"
      /\ \A i \in 1..Len(experience) :
            experience[i].start_date \in {PyNone, <<>>, s_Unknown} )
    => /\ timeline # analyze_raised
       /\ timeline.total_years_experience = 0
       /\ timeline.avg_tenure_months = 0
       /\ timeline.stability_score = 0
       /\ timeline.detected_gaps = <<>>

\* the dated records in ascending start order
AscendingDated(exps) == Resolved(sorted_by_start(dated(exps)))

\* the latest end among the first n records of rs
RunningEnd(rs, n, now) ==
    LatestOf({_get_end_date(rs[j].end_date, now) : j \in 1..n})

\* record i of rs starts more than 6 months after the running end before it
OpensGap(rs, i, now) ==
    /\ i > 1
    /\ DateLT(RunningEnd(rs, i - 1, now), _parse_date(rs[i].start_date))
    /\ MonthsBetween(RunningEnd(rs, i - 1, now), _parse_date(rs[i].start_date)) > 6

ExpectedGaps(rs, now) ==
    LET idx == SelectSeq([i \in 1..Len(rs) |-> i], LAMBDA i : OpensGap(rs, i, now))
    IN  [k \in 1..Len(idx) |->
            LET last == RunningEnd(rs, idx[k] - 1, now)
                start == _parse_date(rs[idx[k]].start_date)
            IN  [from |-> <<last[1], last[2]>>, to |-> <<start[1], start[2]>>,
                 months |-> MonthsBetween(last, start)]]

job_2018_01_2019_01 == ExperienceEntry(s_Job, PyNone, <<"2","0","1","8","-","0","1">>, <<"2","0","1","9","-","0","1">>, <<>>)
job_2019_07_2019_10 == ExperienceEntry(s_Job, PyNone, <<"2","0","1","9","-","0","7">>, <<"2","0","1","9","-","1","0">>, <<>>)
job_2019_08_2019_10 == ExperienceEntry(s_Job, PyNone, <<"2","0","1","9","-","0","8">>, <<"2","0","1","9","-","1","0">>, <<>>)

\* C5: walking the dated records in ascending start order, analyze emits
\* exactly one gap entry for each record that starts strictly after the
\* running last_role_end by more than 6 months, naming both boundary months
\* and the month count; end 2019-01 then start 2019-07 (6 months) emits none
\* and start 2019-08 (7 months) emits one.
C5_GapRule ==
    Returned =>
      /\ timeline.detected_gaps = ExpectedGaps(AscendingDated(experience), today)
      /\ experience = <<job_2018_01_2019_01, job_2019_07_2019_10>>
            => timeline.detected_gaps = <<>>
      /\ experience = <<job_2018_01_2019_01, job_2019_08_2019_10>>
            => Len(timeline.detected_gaps) = 1

C5_Witness ==
    /\ pc = "analyzed"
    /\ experience = <<job_2018_01_2019_01, job_2019_08_2019_10>>
    /\ timeline.detected_gaps =
          <<[from |-> <<2019, 1>>, to |-> <<2019, 8>>, months |-> 7]>>

\* C6: job_hopping_risk is true if and only if avg_tenure_months < 12 and the
\* number of dated roles is greater than 2; three roles of 2 months each give
\* risk true with avg_tenure_months = 2, two such roles give risk false.
C6_JobHoppingRule ==
    Returned =>
      /\ (timeline.job_hopping_risk = <<TRUE>>)
            <=> (timeline.avg_tenure_months < 12 /\ NumDated(experience) > 2)
      /\ experience = <<job_2019_08_2019_10, job_2019_08_2019_10, job_2019_08_2019_10>>
            => /\ timeline.job_hopping_risk = <<TRUE>>
               /\ timeline.avg_tenure_months = 2
      /\ experience = <<job_2019_08_2019_10, job_2019_08_2019_10>>
            => timeline.job_hopping_risk = <<FALSE>>

C6_Witness ==
    /\ pc = "analyzed"
    /\ experience = <<job_2019_08_2019_10, job_2019_08_2019_10, job_2019_08_2019_10>>
    /\ timeline.job_hopping_risk = <<TRUE>>
    /\ timeline.avg_tenure_months = 2

\* C7: whenever at least one record with a start date exists,
\* stability_score = max(1, 10 - 3 * (1 if job_hopping_risk else 0)
\* - 2 * len(detected_gaps)), so it lies in 1..10, also with more than 4 gaps
\* plus job-hopping risk.
C7_StabilityScore ==
    (Returned /\ \E i \in 1..Len(experience) : Truthy(experience[i].start_date))
    => LET raw == 10 - (IF timeline.job_hopping_risk = <<TRUE>> THEN 3 ELSE 0)
                     - 2 * Len(timeline.detected_gaps)
       IN  /\ timeline.stability_score = (IF raw < 1 THEN 1 ELSE raw)
           /\ timeline.stability_score \in 1..10

C7_Witness ==
    /\ pc = "analyzed"
    /\ timeline # analyze_raised
    /\ Len(timeline.detected_gaps) > 4
    /\ timeline.job_hopping_risk = <<TRUE>>
    /\ timeline.stability_score = 1

\* C8: total_years_experience is the months between the earliest resolved
\* start and the maximum resolved end over all dated records (not the end of
\* the record that starts last), divided by 12 and rounded to one decimal.
\* Stated for lists whose every start resolves, so that the handling of
\* undated records plays no part.
C8_SpanToLatestEnd ==
    ( /\ Returned
      /\ experience # <<>>
      /\ \A i \in 1..Len(experience) : StartResolves(experience[i]) )
    => timeline.total_years_experience =
          round_years(MonthsBetween(
              EarliestOf({_parse_date(experience[i].start_date) :
                             i \in 1..Len(experience)}),
              LatestOf({_get_end_date(experience[i].end_date, today) :
                             i \in 1..Len(experience)})))

\* the five derived values of a TimelineAnalysis
Derived(r) ==
    <<r.total_years_experience, r.avg_tenure_months, r.detected_gaps,
      r.job_hopping_risk, r.stability_score>>

\* C9: a record whose start does not resolve to a date is excluded from the
\* span, tenure and gap computations: analyze returns the same derived values
\* as analyze on the list with those records removed.  Stated for lists that
\* hold at least one record whose start resolves.
C9_UndatedExcluded ==
    (Returned /\ NumDated(experience) > 0)
    => Derived(timeline) = Derived(analyze(Resolved(experience), today))

----------------------------------------------------------------------------
(* Properties of the analyzer and the sorter on malformed dates            *)

\* a and b hold the same records, each as many times
SameRecords(a, b) ==
    /\ Len(a) = Len(b)
    /\ \A r \in {a[i] : i \in 1..Len(a)} :
          Cardinality({i \in 1..Len(a) : a[i] = r})
          = Cardinality({i \in 1..Len(b) : b[i] = r})

\* C10: analyze and TimelineSorter.sort never raise: on every list of
\* records, malformed date strings included (free text, the year 0000, a
\* month outside 1..12), analyze returns a TimelineAnalysis and sort returns
\* the same records in some order
C10_NeverRaise ==
    /\ pc = "analyzed" => timeline # analyze_raised
    /\ pc = "sorted" => SameRecords(experience, sort_input)

----------------------------------------------------------------------------
(* Properties of process_cv                                                *)

\* the step named s has run
Ran(s) == \E i \in 1..Len(trace) : trace[i] = s

\* the fallback check has been passed
PastCheck == pc \in {"merge", "sort", "format", "analyze", "primary",
                     "fallback_model", "returned"}

\* the primary extractor raised, returned nothing, or returned a record
\* whose experience list is empty
NothingExtracted ==
    \/ tagged.outcome \in {"raised", "none"}
    \/ tagged.outcome = "parsed" /\ tagged.experience = <<>>

\* the experience list the claim says is carried forward
CarriedForward ==
    IF NothingExtracted THEN extract(raw_text).experience
    ELSE tagged.experience

\* C1: the Recoverer is invoked if and only if the primary extractor raised,
\* returned nothing or returned an empty experience list; the experience
\* list carried forward is then the Recoverer's output for the raw text, and
\* otherwise the extractor's own list, without the Recoverer being invoked:
\* the date-hint merge starts from that list and the sorter receives its merge
C1_RecovererIffNothingExtracted ==
    PastCheck =>
        /\ Ran("recover") <=> NothingExtracted
        /\ pc = "merge" => experience = CarriedForward
        /\ Ran("sort") =>
              sort_input = _merge_date_hints(CarriedForward, date_hints, raw_text)

\* the extractor returned a CVData with an empty experience list and the
\* Recoverer found roles in the text
C1_Witness ==
    /\ pc = "merge"
    /\ tagged.outcome = "parsed"
    /\ tagged.experience = <<>>
    /\ Ran("recover")
    /\ experience # <<>>

\* the place of each step in the order of C2
StepRank(s) ==
    CASE s = "triage" -> 0
      [] s = "scan" -> 1
      [] s = "tag" -> 2
      [] s = "recover" -> 3
      [] s = "merge" -> 4
      [] s = "sort" -> 5
      [] s = "format" -> 6
      [] s = "analyze" -> 7
      [] s = "primary" -> 8
      [] s = "fallback_model" -> 9

\* the record the analyzer is given is the record e: the same fields, an
\* absent description read as the empty one
SeenAs(seen, e) ==
    /\ seen.title = e.title
    /\ seen.company = e.company
    /\ seen.start_date = e.start_date
    /\ seen.end_date = e.end_date
    /\ or_empty(seen.description) = or_empty(e.description)
    /\ seen.date_confidence = e.date_confidence
    /\ seen.user_adjusted = e.user_adjusted
    /\ seen.original_date_line = e.original_date_line

\* the records of the returned dict are the sorted records, in their order
\* and with their dates
ReturnedAsSorted ==
    /\ Len(final_json.experience) = Len(experience)
    /\ \A i \in 1..Len(experience) :
          /\ dict_get(final_json.experience[i], "title", PyNone) = experience[i].title
          /\ dict_get(final_json.experience[i], "start_date", PyNone)
             = experience[i].start_date
          /\ dict_get(final_json.experience[i], "end_date", PyNone)
             = experience[i].end_date

\* C2: in a run that passes triage the steps run in the order date-hint
\* scan, primary extraction, (optional) recovery, date-hint merge, timeline
\* sort, timeline analysis; the analyzer is given exactly the records that
\* exist after merge and sort, in their order; and no step after the sort
\* changes the order or the dates of the records
C2_StepOrder ==
    /\ \A i, j \in 1..Len(trace) : i < j => StepRank(trace[i]) < StepRank(trace[j])
    /\ Ran("tag") => Ran("scan")
    /\ Ran("recover") => Ran("tag")
    /\ Ran("merge") => Ran("tag")
    /\ Ran("sort") => Ran("merge")
    /\ Ran("analyze") => Ran("sort")
    /\ Ran("sort") => experience = sort(sort_input, today)
    /\ Ran("format") => ReturnedAsSorted
    /\ Ran("analyze") =>
          /\ experience =
                sort(_merge_date_hints(CarriedForward, date_hints, raw_text), today)
          /\ Len(analyzer_input) = Len(experience)
          /\ \A i \in 1..Len(experience) : SeenAs(analyzer_input[i], experience[i])
          /\ timeline = analyze(analyzer_input, today)

\* a run has returned in which the Recoverer ran and the sorter changed the
\* order of several records
C2_Witness ==
    /\ pc = "returned"
    /\ Ran("recover")
    /\ Len(experience) >= 2
    /\ experience # sort_input

\* C3: every process_cv run that returns a result yields a TimelineAnalysis
\* computed from the sorted experience list, whatever the outcome of the
\* enrichment calls (success, primary failure, failure of both models)
C3_TimelineAlwaysReturned ==
    pc = "returned" =>
        /\ enrichment.state = "data"
        /\ enrichment.timeline_analysis = <<analyze(experience, today)>>
        /\ analyze(experience, today) # analyze_raised

----------------------------------------------------------------------------
(* Properties of the sorter                                                *)

\* the date a four-digit year stands for
YearDate(s) == <<ToInt(s), 1, 1>>

\* the record's end is "Present" or absent
OpenEnd(e) == e.end_date = PyNone \/ e.end_date = s_Present

\* the end of the record, an open end being today
EndOf(e) == IF OpenEnd(e) THEN today ELSE YearDate(e.end_date)

\* the records come out by end, latest first, and by start, latest first,
\* where the ends are the same and both starts are known
SortedByEndThenStart ==
    \A i \in 1..Len(experience), j \in 1..Len(experience) :
        i < j =>
          \/ DateLT(EndOf(experience[j]), EndOf(experience[i]))
          \/ /\ EndOf(experience[i]) = EndOf(experience[j])
             /\ \/ experience[i].start_date = PyNone
                \/ experience[j].start_date = PyNone
                \/ ~DateLT(YearDate(experience[i].start_date),
                           YearDate(experience[j].start_date))

\* every record with an open end comes before every record with a concrete
\* end
OpenEndsFirst ==
    \A i \in 1..Len(experience), j \in 1..Len(experience) :
        OpenEnd(experience[i]) /\ ~OpenEnd(experience[j]) => i < j

\* the <<start_date, end_date>> of the records of a list, in order
DatesOf(l) == [i \in 1..Len(l) |-> <<l[i].start_date, l[i].end_date>>]

\* 2010-2012, 2020-Present, 2015-2018 come out as 2020-Present, 2015-2018,
\* 2010-2012
ChronologyExample ==
    DatesOf(sort_input) = << <<<<"2","0","1","0">>, <<"2","0","1","2">>>>,
                             <<<<"2","0","2","0">>, s_Present>>,
                             <<<<"2","0","1","5">>, <<"2","0","1","8">>>> >>
    => DatesOf(experience) = << <<<<"2","0","2","0">>, s_Present>>,
                                <<<<"2","0","1","5">>, <<"2","0","1","8">>>>,
                                <<<<"2","0","1","0">>, <<"2","0","1","2">>>> >>

\* C11: TimelineSorter.sort orders the records by (end, start), both
\* descending, an end that is Present or absent being today: a record with
\* a Present or absent end comes before every record with a concrete end,
\* equal ends are ordered by the later start first, and 2010-2012,
\* 2020-Present, 2015-2018 come out as 2020-Present, 2015-2018, 2010-2012
C11_SortOrder ==
    pc = "sorted" =>
        SortedByEndThenStart /\ OpenEndsFirst /\ ChronologyExample

\* the position the k-th record of the input takes in the output
PositionOf(k) == CHOOSE i \in 1..Len(experience) : experience[i] = sort_input[k]

\* C12: TimelineSorter.sort is a pure reordering: every record of the
\* input, each told apart by its title, is found exactly once in the
\* output with every field as it was, nothing else is in the output, and
\* two records with equal sort keys keep their relative input order
C12_PureReordering ==
    pc = "sorted" =>
        /\ Len(experience) = Len(sort_input)
        /\ \A k \in 1..Len(sort_input) :
              Cardinality({i \in 1..Len(experience) :
                              experience[i] = sort_input[k]}) = 1
        /\ \A k \in 1..Len(sort_input), l \in 1..Len(sort_input) :
              /\ k < l
              /\ get_sort_key(sort_input[k], today) = get_sort_key(sort_input[l], today)
              => PositionOf(k) < PositionOf(l)

\* three records were sorted into another order, two of them with equal
\* keys
C12_Witness ==
    /\ pc = "sorted"
    /\ Len(experience) = 3
    /\ experience # sort_input
    /\ \E k \in 1..3, l \in 1..3 :
          /\ k < l
          /\ get_sort_key(sort_input[k], today) = get_sort_key(sort_input[l], today)

----------------------------------------------------------------------------
(* Properties of the date-hint merge                                       *)

\* the record b is the record a but for its four date fields
SameButDates(a, b) ==
    [b EXCEPT !.start_date = a.start_date,
              !.end_date = a.end_date,
              !.date_confidence = a.date_confidence,
              !.original_date_line = a.original_date_line] = a

\* C13: the merge leaves every record that has a start date or is flagged
\* user_adjusted exactly as it was, changes nothing but start_date,
\* end_date, date_confidence and original_date_line in the others, keeps
\* the number and the order of the records, and leaves the hints and the
\* raw text alone
C13_MergeFrame ==
    [][pc = "input" /\ pc' = "merged" =>
          /\ Len(experience') = Len(experience)
          /\ \A i \in 1..Len(experience) :
                /\ SameButDates(experience[i], experience'[i])
                /\ Truthy(experience[i].start_date) \/ experience[i].user_adjusted
                   => experience'[i] = experience[i]
          /\ date_hints' = date_hints
          /\ raw_text' = raw_text]_vars

\* the merge ran on a text whose hints filled one record and left alone,
\* next to it, a record of a title with a hint that the user had adjusted
C13_Witness ==
    /\ pc = "merged"
    /\ raw_text = text_near
    /\ Len(experience) = 2
    /\ experience[1].original_date_line # PyNone
    /\ experience[2].user_adjusted
    /\ experience[2].title = <<"E","n","g","i","n","e","e","r">>
    /\ experience[2].start_date = PyNone

\* the 0-based numbers of the lines of the raw text that contain the title
\* of the record whatever the case; none when the record has no title
TitleLines(e) ==
    IF ~Truthy(e.title) THEN {}
    ELSE {n \in 0..(Len(split_lines(raw_text)) - 1) :
             Contains(str_lower(split_lines(raw_text)[n + 1]), str_lower(e.title))}

\* the lines whose hints count for the record: among the first line with
\* the title and the two below it, those with a hint that has a start
HintLines(e) ==
    IF TitleLines(e) = {} THEN {}
    ELSE LET first == CHOOSE n \in TitleLines(e) : \A m \in TitleLines(e) : n <= m
         IN  {n \in first..(first + 2) :
                 n \in DOMAIN date_hints /\ Truthy(date_hints[n].start_date)}

\* what the merge makes of a record without a start date that the user did
\* not adjust
Filled(e) ==
    IF HintLines(e) = {} THEN e
    ELSE LET h == date_hints[CHOOSE n \in HintLines(e) : \A m \in HintLines(e) : n <= m]
         IN  [e EXCEPT !.start_date = h.start_date,
                       !.end_date = h.end_date,
                       !.date_confidence = h.confidence,
                       !.original_date_line = h.raw_line]

----------------------------------------------------------------------------
(* Properties of the experience records along process_cv                   *)

\* C15: at every point of process_cv (after the tagger or the Recoverer
\* created the records, after the merge, after the sort, and after the
\* schema validated them again for the analyzer) every record whose
\* start_date is absent has a date_confidence other than "high"
C15_AbsentStartNotHigh ==
    /\ \A i \in 1..Len(experience) :
          experience[i].start_date = PyNone
          => experience[i].date_confidence # "high"
    /\ \A i \in 1..Len(analyzer_input) :
          analyzer_input[i].start_date = PyNone
          => analyzer_input[i].date_confidence # "high"

----------------------------------------------------------------------------
(* Properties of the scanner                                               *)

\* the n-th line of the raw text, n counted from 0, stripped
StrippedLine(n) == str_strip(split_lines(raw_text)[n + 1])

\* the line matches the full-range pattern, the year-range pattern, the
\* single-date pattern, or holds four digits in a row
FullRange(s) == \E p \in 1..Len(s) : full_range_at(s, p) # <<>>
YearRange(s) == \E p \in 1..Len(s) : year_range_at(s, p) # <<>>
SingleDate(s) == \E p \in 1..Len(s) : single_date_at(s, p) # <<>>
HasYear(s) == \E p \in 1..Len(s) : four_digits_at(s, p)

\* line n is reported, at the given confidence
ReportedAt(n, confidence) ==
    n \in DOMAIN date_hints /\ date_hints[n].confidence = confidence

\* line n is reported as the Range Extractor reads it, an end it does not
\* find being absent
ReportedFromRange(n, range) ==
    /\ n \in DOMAIN date_hints
    /\ date_hints[n].start_date = range[1]
    /\ date_hints[n].end_date = IF range[2] = s_Unknown THEN PyNone ELSE range[2]

\* C16: the scanner reports a line under one pattern, by precedence: a full
\* range or a year range gives confidence high; otherwise a single month
\* and year gives medium with the end absent; otherwise four digits give
\* low, with the dates the Range Extractor finds; a line matching the
\* full-range pattern is never reported as medium or low
C16_ScannerPrecedence ==
    pc = "scanned" =>
        \A n \in 0..(Len(split_lines(raw_text)) - 1) :
            /\ FullRange(StrippedLine(n)) \/ YearRange(StrippedLine(n))
               => ReportedAt(n, "high")
            /\ /\ ~FullRange(StrippedLine(n)) /\ ~YearRange(StrippedLine(n))
               /\ SingleDate(StrippedLine(n))
               => ReportedAt(n, "medium") /\ date_hints[n].end_date = PyNone
            /\ /\ ~FullRange(StrippedLine(n)) /\ ~YearRange(StrippedLine(n))
               /\ ~SingleDate(StrippedLine(n))
               /\ HasYear(StrippedLine(n))
               => /\ ReportedAt(n, "low")
                  /\ ReportedFromRange(n, extract_range(StrippedLine(n)))
            /\ FullRange(StrippedLine(n))
               => ~ReportedAt(n, "medium") /\ ~ReportedAt(n, "low")

\* a text of three lines was scanned: a full range that the year-range and
\* single-date patterns match too, a single date, a numeric date
C16_Witness ==
    /\ pc = "scanned"
    /\ raw_text = <<"J","a","n"," ","2","0","1","8"," ","-"," ","P","r","e","s","e","n","t">> \o <<"\n">> \o <<"M","a","r","z","o"," ","2","0","1","9">> \o <<"\n">> \o <<"0","3","/","2","0","1","9">>
    /\ date_hints[0].confidence = "high"
    /\ date_hints[1].confidence = "medium"
    /\ date_hints[2].confidence = "low"

\* C17: the map the scanner returns has the key i, the 0-based number of a
\* line of the raw text, exactly when line i yields a hint with a start;
\* blank lines and lines without four digits in a row are never keys, and
\* the hint of line i carries the stripped text of the line
C17_SparseMap ==
    pc = "scanned" =>
        /\ DOMAIN date_hints \subseteq 0..(Len(split_lines(raw_text)) - 1)
        /\ \A n \in 0..(Len(split_lines(raw_text)) - 1) :
              /\ n \in DOMAIN date_hints
                 <=> Truthy(stripped_line_hint(StrippedLine(n)).start_date)
              /\ StrippedLine(n) = <<>> \/ ~HasYear(StrippedLine(n))
                 => n \notin DOMAIN date_hints
              /\ n \in DOMAIN date_hints
                 => /\ Truthy(date_hints[n].start_date)
                    /\ date_hints[n].raw_line = StrippedLine(n)

\* a text of three lines was scanned whose first line is blank and whose
\* third line has spaces around its dates: the keys are 1 and 2
C17_Witness ==
    /\ pc = "scanned"
    /\ raw_text = <<"\n">> \o <<"M","a","r","z","o"," ","2","0","1","9">> \o <<"\n">> \o <<" ","2","0","2","0"," ","-"," ","N","o","w"," ">>
    /\ DOMAIN date_hints = {1, 2}
    /\ date_hints[2].raw_line = <<"2","0","2","0"," ","-"," ","N","o","w">>

----------------------------------------------------------------------------
(* Properties of the normalizer                                            *)

\* "YYYY-MM" with MM in 01..12
IsYearMonth(s) ==
    /\ Len(s) = 7
    /\ \A j \in {1, 2, 3, 4, 6, 7} : IsDigit(s[j])
    /\ s[5] = "-"
    /\ ToInt(SubSeq(s, 6, 7)) \in 1..12

\* "YYYY"
IsYear(s) == Len(s) = 4 /\ \A j \in 1..4 : IsDigit(s[j])

\* the six ongoing words
OngoingWords ==
    {<<"p","r","e","s","e","n","t">>, <<"c","u","r","r","e","n","t">>,
     <<"a","c","t","u","a","l","i","d","a","d">>,
     <<"p","r","e","s","e","n","t","e">>, <<"a","h","o","r","a">>,
     <<"n","o","w">>}

\* the string holds an ongoing word, whatever the case
HasOngoingWord(s) == \E w \in OngoingWords : Contains(str_lower(s), w)

\* C18: normalize returns one of four shapes, YYYY-MM with the month in
\* 01..12, YYYY, Present or Unknown; the empty string, and every string
\* with neither four digits in a row nor an ongoing word, gives Unknown
C18_FourShapes ==
    pc = "normalized" =>
        /\ \/ IsYearMonth(normalized_date)
           \/ IsYear(normalized_date)
           \/ normalized_date = s_Present
           \/ normalized_date = s_Unknown
        /\ date_segment = <<>> => normalized_date = s_Unknown
        /\ ~HasYear(date_segment) /\ ~HasOngoingWord(date_segment)
           => normalized_date = s_Unknown

\* C19: normalize returns Present for every string that holds one of the
\* ongoing words present, current, actualidad, presente, ahora, now,
\* whatever the case and whatever dates the string holds besides
C19_OngoingWords ==
    pc = "normalized" /\ HasOngoingWord(date_segment)
    => normalized_date = s_Present

\* "YYYY-MM" for the month m of the year y
Canonical(y, m) == decimal(y) \o <<"-">> \o two_digits(m)

\* C20: for every year and every month 1..12 written as "<Mon> <year>",
\* "<year>-<month>" or "<month>/<year>", normalize returns the canonical
\* YYYY-MM of that year and month, and normalize of that result is the
\* result again
C20_Idempotent ==
    \A y \in Years, m \in 1..12 :
        /\ pc = "normalized" /\ date_segment \in WrittenAs(y, m)
           => normalized_date = Canonical(y, m)
        /\ pc = "renormalized" /\ date_segment = Canonical(y, m)
           => normalized_date = date_segment

\* normalize was given the canonical form of March 2019, which it had
\* returned, and returned it again
C20_Witness ==
    /\ pc = "renormalized"
    /\ date_segment = Canonical(2019, 3)
    /\ normalized_date = Canonical(2019, 3)

----------------------------------------------------------------------------
(* Properties of the range extractor                                       *)

\* the ongoing words extract_range is described with
RangeWords ==
    {<<"p","r","e","s","e","n","t">>, <<"a","c","t","u","a","l","i","d","a","d">>,
     <<"p","r","e","s","e","n","t","e">>, <<"a","h","o","r","a">>}

\* one of those words appears in the text from index i on
OngoingFrom(text, i) ==
    \E w \in RangeWords : Contains(str_lower(SubSeq(text, i, Len(text))), w)

\* the date of the k-th span
SpanDate(text, spans, k) ==
    normalize(SubSeq(text, spans[k][1], spans[k][2] - 1))

\* what the description gives for a text with these date-shaped spans
RangeBySpans(text, spans) ==
    IF Len(spans) = 0 THEN <<s_Unknown, s_Unknown>>
    ELSE IF OngoingFrom(text, spans[1][2])
         THEN <<SpanDate(text, spans, 1), s_Present>>
    ELSE IF Len(spans) = 1 THEN <<SpanDate(text, spans, 1), s_Unknown>>
    ELSE <<SpanDate(text, spans, 1), SpanDate(text, spans, 2)>>

\* C21: extract_range depends only on the date-shaped spans found left to
\* right: none gives (Unknown, Unknown); one gives (that date, Present) if
\* an ongoing word appears after the span and (that date, Unknown)
\* otherwise; two or more give (first, second), the end replaced by Present
\* when an ongoing word follows the first span; 'Mar 2023 - Ago 2025' gives
\* (2023-03, 2025-08) and '2020 - Present' gives (2020, Present).
C21_RangeFromSpans ==
    pc = "ranged" =>
        /\ date_range = RangeBySpans(raw_text, range_finditer(raw_text, 1))
        /\ raw_text = <<"M","a","r"," ","2","0","2","3"," ","-"," ",
                        "A","g","o"," ","2","0","2","5">>
           => date_range = <<<<"2","0","2","3","-","0","3">>,
                             <<"2","0","2","5","-","0","8">>>>
        /\ raw_text = <<"2","0","2","0"," ","-"," ","P","r","e","s","e","n","t">>
           => date_range = <<<<"2","0","2","0">>, s_Present>>

----------------------------------------------------------------------------
(* Properties of the Recoverer                                             *)

\* the non-empty lines of the text, stripped, in document order
InputLines(text) ==
    SelectSeq([i \in 1..Len(split_lines(text)) |-> str_strip(split_lines(text)[i])],
              LAMBDA l : l # <<>>)

\* the header and the body lines of the chunks from the k-th on, in order
RECURSIVE ChunkLines(_, _)
ChunkLines(chunks, k) ==
    IF k > Len(chunks) THEN <<>>
    ELSE <<chunks[k].header>> \o chunks[k].description \o ChunkLines(chunks, k + 1)

\* the lines joined by newlines
RECURSIVE NewlineJoined(_)
NewlineJoined(lines) ==
    IF Len(lines) = 1 THEN lines[1]
    ELSE lines[1] \o <<"\n">> \o NewlineJoined(Tail(lines))

\* C22: the Recoverer loses no text: every non-empty input line is placed in
\* exactly one place (the header of one chunk, the body of exactly one
\* chunk, or the lead-in), body lines keep their document order, and the
\* description of each record with a non-empty body is exactly its body
\* lines joined by newlines.  The lead-in followed by each chunk's header
\* and body, in order, is the sequence of the input lines.
C22_NoTextLost ==
    pc = "extracted" =>
        /\ chunk_state.lead_in \o ChunkLines(chunk_state.chunks, 1)
              = InputLines(raw_text)
        /\ Len(experience) = Len(chunk_state.chunks)
        /\ \A i \in 1..Len(experience) :
              chunk_state.chunks[i].description # <<>>
              => experience[i].description
                    = NewlineJoined(chunk_state.chunks[i].description)

\* a text with a lead-in line and a header followed by two body lines
C22_Witness ==
    /\ pc = "extracted"
    /\ chunk_state.lead_in = << <<"A","n","a">> >>
    /\ Len(chunk_state.chunks) = 1
    /\ Len(chunk_state.chunks[1].description) = 2
    /\ experience[1].description
          = chunk_state.chunks[1].description[1] \o <<"\n">>
            \o chunk_state.chunks[1].description[2]

\* the header-like lines without dates
PlainHeaders ==
    {<<"E","n","g","i","n","e","e","r",","," ","A","c","m","e">>,
     <<"P","i","l","o","t"," ","@"," ","G","l","o","b","e","x">>}

\* the date-only lines, each with the <<start, end>> written on it
TrailingDates ==
    {<< <<"2","0","1","8"," ","-"," ","2","0","2","0">>,
        <<"2","0","1","8">>, <<"2","0","2","0">> >>,
     << <<"M","a","r"," ","2","0","2","1"," ","-"," ","P","r","e","s","e","n","t">>,
        <<"2","0","2","1","-","0","3">>, s_Present >>}

\* C23: on an input made of 2 header-like lines followed by 2 trailing
\* date-only lines in matching order, the Recoverer returns exactly 2
\* experience records and record i carries the dates of date line i.
C23_HeadersZippedWithDates ==
    \A h1 \in PlainHeaders, h2 \in PlainHeaders,
       d1 \in TrailingDates, d2 \in TrailingDates :
        ( /\ pc = "extracted"
          /\ raw_text = h1 \o <<"\n">> \o h2 \o <<"\n">> \o d1[1] \o <<"\n">> \o d2[1] )
        => /\ Len(experience) = 2
           /\ experience[1].start_date = d1[2] /\ experience[1].end_date = d1[3]
           /\ experience[2].start_date = d2[2] /\ experience[2].end_date = d2[3]

\* C24: the Recoverer's output has full_name equal to the first lead-in line
\* (or the placeholder when the lead-in is empty), summary equal to the
\* remaining lead-in lines (all but the first) joined, and exactly one
\* experience record per chunk in document order.
C24_NameSummaryRecords ==
    pc = "extracted" =>
        /\ full_name = IF chunk_state.lead_in # <<>> THEN chunk_state.lead_in[1]
                       ELSE <<"C","a","n","d","i","d","a","t","e">>
        /\ summary = IF Len(chunk_state.lead_in) > 1
                     THEN NewlineJoined(Tail(chunk_state.lead_in))
                     ELSE <<>>
        /\ Len(experience) = Len(chunk_state.chunks)
        /\ \A i \in 1..Len(experience) :
              experience[i] = chunk_entry(chunk_state.chunks[i])

\* the start and end a record takes from a range: Unknown becomes absent
AssignedFrom(range) ==
    <<IF range[1] # s_Unknown THEN range[1] ELSE PyNone,
      IF range[2] # s_Unknown THEN range[2] ELSE PyNone>>

\* the range of the header, else of the first body line, else none
HeaderThenFirstBodyLine(chunk) ==
    IF extract_range(chunk.header)[1] # s_Unknown
    THEN AssignedFrom(extract_range(chunk.header))
    ELSE IF chunk.description # <<>>
            /\ extract_range(chunk.description[1])[1] # s_Unknown
    THEN AssignedFrom(extract_range(chunk.description[1]))
    ELSE <<PyNone, PyNone>>

\* C29: for each chunk the Recoverer assigns dates from the header line when
\* extract_range on the header yields a start; otherwise from the chunk's
\* first body line when that yields a start; otherwise the record has
\* start_date and end_date absent, whatever dates appear in the second and
\* later body lines.
C29_DatesFromHeaderOrFirstLine ==
    pc = "extracted" =>
        \A i \in 1..Len(experience) :
            <<experience[i].start_date, experience[i].end_date>>
                = HeaderThenFirstBodyLine(chunk_state.chunks[i])

----------------------------------------------------------------------------
(* Properties of the analyzer on overlapping roles                         *)

\* the record of a role with these dates
role(start, end) == ExperienceEntry(s_Job, PyNone, start, end, <<>>)

role_2015_01_2020_01 == role(<<"2","0","1","5","-","0","1">>, <<"2","0","2","0","-","0","1">>)
role_2016_01_2016_06 == role(<<"2","0","1","6","-","0","1">>, <<"2","0","1","6","-","0","6">>)
role_2017_06_2018_01 == role(<<"2","0","1","7","-","0","6">>, <<"2","0","1","8","-","0","1">>)
role_2021_01_Present == role(<<"2","0","2","1","-","0","1">>, s_Present)
role_2019_05_2019_05 == role(<<"2","0","1","9","-","0","5">>, <<"2","0","1","9","-","0","5">>)
role_2019_08_2019_01 == role(<<"2","0","1","9","-","0","8">>, <<"2","0","1","9","-","0","1">>)
role_2015_01_2016_06 == role(<<"2","0","1","5","-","0","1">>, <<"2","0","1","6","-","0","6">>)

\* the gap between the latest end of the first i - 1 records of rs and the
\* start of record i
GapBefore(rs, i, now) ==
    [from   |-> <<RunningEnd(rs, i - 1, now)[1], RunningEnd(rs, i - 1, now)[2]>>,
     to     |-> <<_parse_date(rs[i].start_date)[1], _parse_date(rs[i].start_date)[2]>>,
     months |-> MonthsBetween(RunningEnd(rs, i - 1, now),
                              _parse_date(rs[i].start_date))]

\* the records of rs that start more than 6 months after the latest end of
\* the records before them
StartsAfterMaximum(rs, now) ==
    {i \in 2..Len(rs) :
        /\ DateLT(RunningEnd(rs, i - 1, now), _parse_date(rs[i].start_date))
        /\ MonthsBetween(RunningEnd(rs, i - 1, now),
                         _parse_date(rs[i].start_date)) > 6}

\* the gaps reported for the walked records rs
GapsFromMaximum(gaps, rs, now) ==
    /\ Len(gaps) = Cardinality(StartsAfterMaximum(rs, now))
    /\ \A k \in 1..Len(gaps) :
          \E i \in StartsAfterMaximum(rs, now) : gaps[k] = GapBefore(rs, i, now)

\* C25: during the gap walk last_role_end is always the maximum resolved end
\* over all records walked so far: a record whose start is on or before that
\* maximum never produces a gap, and every emitted gap is measured from that
\* maximum, not from the end of the immediately preceding record.
C25_RunningMaximum ==
    Returned =>
      /\ GapsFromMaximum(timeline.detected_gaps, AscendingDated(experience), today)
      /\ experience = <<role_2015_01_2020_01, role_2016_01_2016_06, role_2017_06_2018_01>>
            => timeline.detected_gaps = <<>>

\* the gap before the role of 2021 is measured from the end of the long
\* role, 2020-01, not from the end of the role before it, 2016-06
C25_Witness ==
    /\ pc = "analyzed"
    /\ experience = <<role_2015_01_2020_01, role_2016_01_2016_06, role_2021_01_Present>>
    /\ timeline.detected_gaps =
          <<[from |-> <<2020, 1>>, to |-> <<2021, 1>>, months |-> 12]>>

\* the tenure of a record: the months from its start to its end, at least 1
Tenure(e, now) ==
    IF MonthsBetween(_parse_date(e.start_date), _get_end_date(e.end_date, now)) < 1
    THEN 1
    ELSE MonthsBetween(_parse_date(e.start_date), _get_end_date(e.end_date, now))

\* the tenures of the first n records of rs, summed
RECURSIVE SummedTenures(_, _, _)
SummedTenures(rs, n, now) ==
    IF n = 0 THEN 0
    ELSE SummedTenures(rs, n - 1, now) + Tenure(rs[n], now)

\* C26: each dated record contributes a tenure equal to the months between
\* its own start and end, raised to 1 when that difference is below 1
\* (including when the end precedes the start), and avg_tenure_months is the
\* integer quotient of the summed tenures by the number of dated records,
\* hence at least 1 whenever a dated record exists.
C26_TenureFloor ==
    (Returned /\ NumDated(experience) > 0) =>
      /\ timeline.avg_tenure_months =
            SummedTenures(Resolved(experience), NumDated(experience), today)
               \div NumDated(experience)
      /\ timeline.avg_tenure_months >= 1

\* a role whose end precedes its start counts 1 month, one of 5 months
\* follows: the average is 3
C26_Witness ==
    /\ pc = "analyzed"
    /\ experience = <<role_2019_08_2019_01, role_2016_01_2016_06>>
    /\ timeline.avg_tenure_months = 3

\* the months from the earliest start to the latest end of the records whose
\* start resolves
SpanMonths(exps, now) ==
    MonthsBetween(
        EarliestOf({_parse_date(Resolved(exps)[i].start_date) :
                       i \in 1..NumDated(exps)}),
        LatestOf({_get_end_date(Resolved(exps)[i].end_date, now) :
                       i \in 1..NumDated(exps)}))

\* C27: when at least one dated record exists and the span from the earliest
\* start to the latest end is exactly zero months, analyze returns
\* total_years_experience = 0.1 rather than 0; total_years_experience is
\* never negative.  (Years are held in tenths.)
C27_SpanFloor ==
    (Returned /\ NumDated(experience) > 0) =>
      /\ SpanMonths(experience, today) = 0
            => timeline.total_years_experience = 1
      /\ timeline.total_years_experience >= 0

\* the list in the order p
Permuted(exps, p) == [i \in 1..Len(exps) |-> exps[p[i]]]

\* C30: analyze is independent of the order of its input: for every
\* experience list and every permutation of it, the returned
\* total_years_experience, avg_tenure_months, detected_gaps,
\* job_hopping_risk and stability_score are the same, including when
\* several records share the same start date.
C30_OrderIndependent ==
    Returned =>
      \A p \in Permutations(1..Len(experience)) :
          Derived(analyze(Permuted(experience, p), today)) = Derived(timeline)

----------------------------------------------------------------------------
(* Properties of the sorter and the analyzer on the same dates             *)

\* C28: the Timeline Sorter and the Timeline Analyzer resolve dates
\* identically: for every start string and every end string (canonical
\* YYYY-MM, bare year, Present, absent, Unknown, numeric forms such as
\* MM/YYYY and YYYY/MM, month-name forms, and unparseable text) the date the
\* sorter uses in its key equals the date the analyzer uses in its
\* arithmetic.  Compared on the records the analyzer walks.
C28_SameResolution ==
    pc = "analyzed" =>
        \A i \in 1..Len(analyzer_dates) :
            \A j \in 1..Len(sorter_dates) :
                ( /\ sorter_dates[j].start_date = analyzer_dates[i].start_date
                  /\ sorter_dates[j].end_date = analyzer_dates[i].end_date )
                => /\ sorter_dates[j].start = analyzer_dates[i].start
                   /\ sorter_dates[j].end = analyzer_dates[i].end

====
